---- MODULE Spec2Model ----
(***************************************************************************)
(* Verification model of the health-IoT benchmarking scripts.              *)
(*                                                                         *)
(* Each script is a sequential procedure driving a vendor SDK.  Every      *)
(* procedure is modelled as its own state machine over one record-valued   *)
(* variable whose fields carry the names of the procedure's locals; the    *)
(* SDK is the environment: each SDK call nondeterministically succeeds or  *)
(* raises.  Each procedure has its own specification:                      *)
(*                                                                         *)
(*   SpecImport  HealthIoTDataImporter.import_data     (10_data_import.py) *)
(*   SpecQuery   QueryPerformanceTester          (12_query_performance.py) *)
(*   SpecTokens  SecurityTokenManager                (13_security_tokens.py) *)
(*   SpecPrune   ResultsCollector.prune_old_outputs (24_results_collector.py) *)
(*   SpecCompliance  SecurityAnalyzer._assess_compliance (26_security_analysis.py) *)
(*   SpecFinal   FinalTablesGenerator.run               (27_final_tables.py) *)
(*   SpecScore   ResultsCollector._normalize_and_score (24_results_collector.py) *)
(*   SpecDataset generate_health_iot_data (01_generate_health_iot_dataset.py) *)
(*   SpecNormalize  FinalTablesGenerator._normalize_performance_scores    *)
(***************************************************************************)
EXTENDS Integers, Sequences, FiniteSets, TLC

VARIABLES imp, qry, tok, prn, cmp, fin, scr, gen

vars == <<imp, qry, tok, prn, cmp, fin, scr, gen>>

(***************************************************************************)
(* Bounds of the model.                                                    *)
(***************************************************************************)
MaxPoints == 3
MaxBatch == 3
MaxRetries == 3

(***************************************************************************)
(* Generic helpers.                                                        *)
(***************************************************************************)
Min(a, b) == IF a < b THEN a ELSE b

RECURSIVE Pow2(_)
Pow2(n) == IF n <= 0 THEN 1 ELSE 2 * Pow2(n - 1)

RECURSIVE SumSeq(_)
SumSeq(s) == IF s = <<>> THEN 0 ELSE Head(s) + SumSeq(Tail(s))

Last(s) == s[Len(s)]

SetLast(s, x) == [s EXCEPT ![Len(s)] = x]

Idle == [pc |-> "idle"]

(***************************************************************************)
(* HealthIoTDataImporter.import_data                                       *)
(*                                                                         *)
(* imp.pc is the position in import_data:                                  *)
(*   "entry"   import_data was called, before parse_csv_file             *)
(*   "start"   before the parse result is looked at                        *)
(*   "convert" the points are converted, before client.write_api(...)      *)
(*   "loop"    at the head of  for i in range(0, total_points, batch_size) *)
(*   "attempt" at the head of  for attempt in range(max_retries)           *)
(*   "between" at  time.sleep(0.1)  after the retry loop                   *)
(*   "finish"  after the batch loop                                        *)
(*   "done"    import_data has returned                                    *)
(*   "raised"  import_data has raised to its caller; imp.raised_at names   *)
(*             the call that raised                                        *)
(* imp.batches, imp.writes and imp.pauses record what the run did: one     *)
(* entry per batch slice with the outcome of each write call and each      *)
(* backoff sleep, the number of write calls, and the 0.1 s pauses.         *)
(***************************************************************************)
\* total_batches = (total_points + batch_size - 1) // batch_size
TotalBatches(total_points, batch_size) ==
    (total_points + batch_size - 1) \div batch_size

\* batch = points[i : i + batch_size]: the points i+1 .. BatchHi (1-based)
BatchHi(i, batch_size, total_points) == Min(i + batch_size, total_points)

\* mutant: len(batch) taken to be batch_size, also for the last, shorter slice
BatchLen_Full(i, batch_size, total_points) == batch_size

\* len(batch)
BatchLen(i, batch_size, total_points) ==
    BatchHi(i, batch_size, total_points) - i

\* mutant: the range steps one too far and skips a point
NextIndex_Skip(i, batch_size) == i + batch_size + 1

\* the step of range(0, total_points, batch_size)
NextIndex(i, batch_size) == i + batch_size

\* mutant: off by one, the final failed attempt backs off too
ShouldRetry_Always(attempt, max_retries) == attempt < max_retries

\* if attempt < max_retries - 1: retry after a sleep, else count a failure
ShouldRetry(attempt, max_retries) == attempt < max_retries - 1

\* time.sleep(2**attempt)
Backoff(attempt) == Pow2(attempt)

ImportInputs ==
    [total_points : 0..MaxPoints,
     batch_size   : (-1)..MaxBatch,
     max_retries  : 0..MaxRetries,
     write_mode   : {"sync", "async"}]

ImportFrame == UNCHANGED <<qry, tok, prn, cmp, fin, scr, gen>>

InitImport ==
    /\ qry = Idle /\ tok = Idle /\ prn = Idle /\ cmp = Idle
    /\ fin = Idle /\ scr = Idle /\ gen = Idle
    /\ \E inp \in ImportInputs :
        imp = [pc              |-> "entry",
               total_points    |-> inp.total_points,
               batch_size      |-> inp.batch_size,
               max_retries     |-> inp.max_retries,
               write_mode      |-> inp.write_mode,
               async_wait      |-> 0,
               verified        |-> "no",
               raised_at       |-> "none",
               i               |-> 0,
               attempt         |-> 0,
               total_batches   |-> 0,
               imported_points |-> 0,
               failed_batches  |-> 0,
               writes          |-> 0,
               pauses          |-> 0,
               batches         |-> <<>>,
               result          |-> "none"]

\* i in range(0, stop, step) for a step other than 0, where i is a multiple
\* of step: a negative step counts down from 0 and never meets a stop >= 0
InRangeOf(i, stop, step) == IF step > 0 THEN i < stop ELSE i > stop

\* data_points = self.parse_csv_file(file_path): the file was read, rows
\* that fail to parse are skipped
ImportParse ==
    /\ imp.pc = "entry"
    /\ ImportFrame
    /\ imp' = [imp EXCEPT !.pc = "start"]

\* parse_csv_file raises (open() fails): import_data raises
ImportParseRaises ==
    /\ imp.pc = "entry"
    /\ ImportFrame
    /\ imp' = [imp EXCEPT !.pc = "raised", !.raised_at = "parse"]

\* if not data_points: return {}
ImportEmpty ==
    /\ imp.pc = "start"
    /\ ImportFrame
    /\ imp.total_points = 0
    /\ imp' = [imp EXCEPT !.pc = "done", !.result = "empty"]

\* points = self.convert_to_influx_points(data_points)
ImportConvert ==
    /\ imp.pc = "start"
    /\ ImportFrame
    /\ imp.total_points > 0
    /\ imp' = [imp EXCEPT !.pc = "convert"]

\* self.client.write_api(write_options=...) raises: nothing was written
ImportWriteApiRaises ==
    /\ imp.pc = "convert"
    /\ ImportFrame
    /\ imp' = [imp EXCEPT !.pc = "raised", !.raised_at = "write_api"]

\* range(0, total_points, 0) raises ValueError
ImportZeroStep ==
    /\ imp.pc = "convert"
    /\ ImportFrame
    /\ imp.batch_size = 0
    /\ imp' = [imp EXCEPT !.pc = "raised", !.raised_at = "range"]

\* write_api = self.client.write_api(...); the counters start at 0
ImportBegin ==
    /\ imp.pc = "convert"
    /\ ImportFrame
    /\ imp.batch_size # 0
    /\ imp' = [imp EXCEPT !.pc = "loop", !.i = 0]

\* one more i in range(0, total_points, batch_size): slice the batch
BatchStart ==
    /\ imp.pc = "loop"
    /\ ImportFrame
    /\ InRangeOf(imp.i, imp.total_points, imp.batch_size)
    /\ imp' = [imp EXCEPT
         !.pc = "attempt",
         !.attempt = 0,
         !.total_batches = TotalBatches(imp.total_points, imp.batch_size),
         !.batches = Append(@,
             [lo      |-> imp.i,
              hi      |-> BatchHi(imp.i, imp.batch_size, imp.total_points),
              tries   |-> <<>>,
              sleeps  |-> <<>>,
              outcome |-> "pending"])]

\* the range is exhausted
BatchLoopEnd ==
    /\ imp.pc = "loop"
    /\ ImportFrame
    /\ ~InRangeOf(imp.i, imp.total_points, imp.batch_size)
    /\ imp' = [imp EXCEPT !.pc = "finish"]

\* write_api.write(...) returned: count the batch and break
WriteOk ==
    /\ imp.pc = "attempt"
    /\ ImportFrame
    /\ imp.attempt < imp.max_retries
    /\ imp' = [imp EXCEPT
         !.pc = "between",
         !.writes = @ + 1,
         !.imported_points =
             @ + BatchLen(imp.i, imp.batch_size, imp.total_points),
         !.batches = SetLast(@, [Last(@) EXCEPT
             !.tries = Append(@, "ok"), !.outcome = "ok"])]

\* write raised InfluxDBError and attempts remain: back off and go on
WriteRetry ==
    /\ imp.pc = "attempt"
    /\ ImportFrame
    /\ imp.attempt < imp.max_retries
    /\ ShouldRetry(imp.attempt, imp.max_retries)
    /\ imp' = [imp EXCEPT
         !.attempt = @ + 1,
         !.writes = @ + 1,
         !.batches = SetLast(@, [Last(@) EXCEPT
             !.tries = Append(@, "InfluxDBError"),
             !.sleeps = Append(@, Backoff(imp.attempt))])]

\* write raised InfluxDBError on the last attempt: the batch failed
WriteGiveUp ==
    /\ imp.pc = "attempt"
    /\ ImportFrame
    /\ imp.attempt < imp.max_retries
    /\ ~ShouldRetry(imp.attempt, imp.max_retries)
    /\ imp' = [imp EXCEPT
         !.attempt = @ + 1,
         !.writes = @ + 1,
         !.failed_batches = @ + 1,
         !.batches = SetLast(@, [Last(@) EXCEPT
             !.tries = Append(@, "InfluxDBError")])]

\* write raised something that is no InfluxDBError: it propagates
WriteRaise ==
    /\ imp.pc = "attempt"
    /\ ImportFrame
    /\ imp.attempt < imp.max_retries
    /\ imp' = [imp EXCEPT
         !.pc = "raised",
         !.raised_at = "write",
         !.writes = @ + 1,
         !.batches = SetLast(@, [Last(@) EXCEPT
             !.tries = Append(@, "OtherError"), !.outcome = "raised"])]

\* range(max_retries) is exhausted without a break
RetriesExhausted ==
    /\ imp.pc = "attempt"
    /\ ImportFrame
    /\ imp.attempt >= imp.max_retries
    /\ imp' = [imp EXCEPT
         !.pc = "between",
         !.batches = SetLast(@, [Last(@) EXCEPT !.outcome = "exhausted"])]

\* time.sleep(0.1), then the next i
BatchPause ==
    /\ imp.pc = "between"
    /\ ImportFrame
    /\ imp' = [imp EXCEPT
         !.pc = "loop",
         !.pauses = @ + 1,
         !.i = NextIndex(imp.i, imp.batch_size)]

\* time.sleep(5) if write_mode == "async"
AsyncWait(write_mode) == IF write_mode = "async" THEN 5 ELSE 0

\* the async wait, then write_api.close() raises: no statistics are returned
ImportCloseRaises ==
    /\ imp.pc = "finish"
    /\ ImportFrame
    /\ imp' = [imp EXCEPT
         !.pc = "raised",
         !.raised_at = "close",
         !.async_wait = AsyncWait(imp.write_mode)]

\* the async wait, statistics, close, summary, verify_import when points
\* were imported (an error of its query is swallowed), return
ImportReturn ==
    /\ imp.pc = "finish"
    /\ ImportFrame
    /\ \E query_raised \in BOOLEAN :
         /\ imp.imported_points = 0 => ~query_raised
         /\ imp' = [imp EXCEPT
              !.pc = "done",
              !.result = "stats",
              !.async_wait = AsyncWait(imp.write_mode),
              !.verified = IF imp.imported_points = 0 THEN "no"
                           ELSE IF query_raised THEN "error" ELSE "ok"]

NextImport ==
    \/ ImportParse
    \/ ImportParseRaises
    \/ ImportEmpty
    \/ ImportConvert
    \/ ImportWriteApiRaises
    \/ ImportZeroStep
    \/ ImportBegin
    \/ BatchStart
    \/ BatchLoopEnd
    \/ WriteOk
    \/ WriteRetry
    \/ WriteGiveUp
    \/ WriteRaise
    \/ RetriesExhausted
    \/ BatchPause
    \/ ImportCloseRaises
    \/ ImportReturn

SpecImport == InitImport /\ [][NextImport]_vars

\* the importer is one sequential thread: a step that can be taken is taken
FairSpecImport == SpecImport /\ WF_vars(NextImport)

ImportEnded == imp.pc \in {"done", "raised"}

(***************************************************************************)
(* Claims about import_data.                                               *)
(***************************************************************************)
\* ceil(a / b) for a >= 0 and b # 0
CeilDiv(a, b) ==
    IF b < 0 THEN 0 - (a \div (0 - b))
    ELSE IF a % b = 0 THEN a \div b ELSE (a \div b) + 1

BatchIdx == 1..Len(imp.batches)

WritesLogged == SumSeq([k \in BatchIdx |-> Len(imp.batches[k].tries)])

C1_RetryShape ==
    /\ \A n \in BatchIdx :
         LET b == imp.batches[n] IN
         /\ Len(b.tries) <= imp.max_retries
         \* an attempt is followed by another one only if it raised InfluxDBError
         /\ \A k \in 1..(Len(b.tries) - 1) : b.tries[k] = "InfluxDBError"
         \* the k-th backoff sleep (k = 0, 1, ...) lasts 2**k seconds
         /\ \A k \in 1..Len(b.sleeps) : b.sleeps[k] = Pow2(k - 1)
         \* every attempt after the first is preceded by a backoff sleep
         /\ Len(b.tries) <= Len(b.sleeps) + 1
         \* one sleep per InfluxDBError, none after the final failed attempt
         /\ Len(b.sleeps) =
              Cardinality({k \in 1..Len(b.tries) :
                  b.tries[k] = "InfluxDBError" /\ k < imp.max_retries})
    /\ imp.writes = WritesLogged
    /\ imp.writes <= imp.total_batches * imp.max_retries
    /\ Len(imp.batches) <= imp.total_batches

\* C1: every batch is written at most max_retries times, attempts stop at the
\* first success, a further attempt follows only an InfluxDBError and the
\* sleep before attempt k+1 is 2**k seconds with none after the final failed
\* attempt; the import makes at most total_batches * max_retries write calls
\* and terminates.
C1_RetryBackoff == []C1_RetryShape /\ <>ImportEnded

C1_Witness ==
    /\ imp.pc = "done"
    /\ imp.max_retries = 3
    /\ \E n \in BatchIdx :
         /\ imp.batches[n].tries =
              <<"InfluxDBError", "InfluxDBError", "InfluxDBError">>
         /\ imp.batches[n].sleeps = <<1, 2>>
    /\ \E n \in BatchIdx :
         /\ imp.batches[n].tries = <<"InfluxDBError", "InfluxDBError", "ok">>
         /\ imp.batches[n].sleeps = <<1, 2>>

OkBatches == {n \in BatchIdx : imp.batches[n].outcome = "ok"}

FailedBatches ==
    {n \in BatchIdx :
        /\ imp.batches[n].outcome = "exhausted"
        /\ Len(imp.batches[n].tries) = imp.max_retries
        /\ \A k \in 1..Len(imp.batches[n].tries) :
              imp.batches[n].tries[k] = "InfluxDBError"}

SizeOfOk ==
    SumSeq([n \in BatchIdx |->
        IF n \in OkBatches THEN imp.batches[n].hi - imp.batches[n].lo ELSE 0])

ImportReturnedStats == imp.pc = "done" /\ imp.result = "stats"

\* C2: when import_data returns with max_retries >= 1, every batch either
\* added its size to imported_points (an attempt succeeded) or added one to
\* failed_batches (all max_retries attempts raised InfluxDBError), never both;
\* imported_points is the total size of the succeeded batches and at most
\* total_points, succeeded + failed = ceil(total_points / batch_size), and
\* imported_points = total_points iff failed_batches = 0.
C2_BatchAccounting ==
    (ImportReturnedStats /\ imp.max_retries >= 1) =>
        /\ OkBatches \cup FailedBatches = BatchIdx
        /\ OkBatches \cap FailedBatches = {}
        /\ \A n \in OkBatches :
              Cardinality({k \in 1..Len(imp.batches[n].tries) :
                              imp.batches[n].tries[k] = "ok"}) = 1
        /\ imp.failed_batches = Cardinality(FailedBatches)
        /\ imp.imported_points = SizeOfOk
        /\ imp.imported_points <= imp.total_points
        /\ Cardinality(OkBatches) + imp.failed_batches =
              CeilDiv(imp.total_points, imp.batch_size)
        /\ (imp.imported_points = imp.total_points) <=> (imp.failed_batches = 0)

C2_Witness ==
    /\ ImportReturnedStats
    /\ imp.max_retries >= 2
    /\ imp.failed_batches >= 1
    /\ Cardinality(OkBatches) >= 1
    /\ imp.total_points % imp.batch_size # 0
    /\ Last(imp.batches).outcome = "ok"

Resolved(b) == b.outcome \in {"ok", "exhausted"}

C3_Slices ==
    /\ \A n \in BatchIdx :
         LET b == imp.batches[n] IN
         \* slice n is points[(n-1)*batch_size : n*batch_size], never empty
         /\ b.lo = (n - 1) * imp.batch_size
         /\ b.hi = Min(b.lo + imp.batch_size, imp.total_points)
         /\ b.lo < b.hi
         /\ (b.hi - b.lo = imp.batch_size) \/ (n = Len(imp.batches))
         \* contiguous and disjoint: a slice starts where the previous one ends
         /\ n > 1 => b.lo = imp.batches[n - 1].hi
         \* a later slice exists only once this one succeeded or ran out of retries
         /\ n < Len(imp.batches) => Resolved(b)
    \* the import stops early only before the first batch (the parse,
    \* write_api or the zero step raised) or on a write error that is no
    \* InfluxDBError; when close raises every batch was attempted
    /\ imp.pc = "raised" =>
         \/ imp.raised_at = "parse" /\ imp.batches = <<>>
         \/ imp.raised_at = "write_api" /\ imp.batches = <<>>
         \/ imp.raised_at = "range" /\ imp.batch_size = 0 /\ imp.batches = <<>>
         \/ imp.raised_at = "write"
               /\ Last(Last(imp.batches).tries) = "OtherError"
         \/ imp.raised_at = "close"
               /\ imp.batches # <<>>
               /\ Last(imp.batches).hi = imp.total_points
               /\ \A n \in BatchIdx : Resolved(imp.batches[n])
    \* on return the slices cover every point and each one was attempted
    /\ ImportReturnedStats =>
         /\ imp.batches # <<>>
         /\ Last(imp.batches).hi = imp.total_points
         /\ Len(imp.batches) = CeilDiv(imp.total_points, imp.batch_size)
         /\ \A n \in BatchIdx : Resolved(imp.batches[n])
         /\ imp.max_retries >= 1 =>
               \A n \in BatchIdx : Len(imp.batches[n].tries) >= 1
         /\ imp.pauses = Len(imp.batches)

\* a step never touches an earlier slice: writes go to the newest slice only
C3_Step ==
    /\ Len(imp'.batches) \in {Len(imp.batches), Len(imp.batches) + 1}
    /\ \A n \in 1..(Len(imp.batches) - 1) : imp'.batches[n] = imp.batches[n]
    /\ Len(imp'.batches) = Len(imp.batches) + 1 =>
          /\ imp.batches # <<>> => imp'.batches[Len(imp.batches)] = Last(imp.batches)
          /\ Last(imp'.batches).tries = <<>>

\* C3: the batches are contiguous, disjoint slices of batch_size points (the
\* last possibly shorter) taken in file order that cover every parsed point
\* exactly once; a batch is attempted only after the one before it succeeded
\* or exhausted its retries, and an exhausted batch does not stop the import.
C3_OrderedSlices == []C3_Slices /\ [][C3_Step]_vars

C3_Witness ==
    /\ ImportReturnedStats
    /\ Len(imp.batches) >= 2
    /\ imp.batches[1].outcome = "exhausted"
    /\ Len(imp.batches[1].tries) = 2
    /\ imp.batches[2].outcome = "ok"
    /\ Last(imp.batches).hi - Last(imp.batches).lo < imp.batch_size

(***************************************************************************)
(* QueryPerformanceTester.execute_query and run_performance_test           *)
(*                                                                         *)
(* qry.mode is "direct" for one call of execute_query with any             *)
(* max_retries, "perf" for run_performance_test, which calls execute_query *)
(* with the default max_retries.  qry.pc is the position:                  *)
(*   "eq"        execute_query, head of  for attempt in range(max_retries) *)
(*   "eq_ret"    execute_query has returned qry.ret to qry.caller          *)
(*   "q_loop"    head of  for query_def in queries                         *)
(*   "warm_loop" head of  for i in range(warmup_iterations)                *)
(*   "iter_loop" head of  for i in range(iterations)                       *)
(*   "done"      the outermost call has returned                           *)
(* The SDK call takes a duration from Durations on the perf_counter clock  *)
(* (seconds; only differences of the clock are meaningful, so every call   *)
(* of execute_query starts it at 0) and either returns tables, given as    *)
(* the sequence of their record counts, or raises with a text.  A value    *)
(* that is None in the code is <<>> here, a string s is <<s>>.             *)
(* qry.tries logs the attempts of the current call, qry.calls the calls.   *)
(***************************************************************************)
MaxCalls == 4

DefaultMaxRetries == 3

Durations == {1, 2}

TableSets == {<<2, 1>>}

ErrTexts == {"", "timeout"}

None == <<>>

Str(s) == <<s>>

\* Python truthiness of an Optional[str]:  if error:
Truthy(error) == error # None /\ error # Str("")

\* mutant: the tables are counted, not their records
ResultCount_Tables(tables) == Len(tables)

\* result_count = sum(len(table.records) for table in tables)
ResultCount(tables) == SumSeq(tables)

\* execution_time = end_time - start_time
ExecutionTime(start_time, end_time) == end_time - start_time

\* if attempt < max_retries - 1: sleep(1) and retry, else return the error
QueryShouldRetry(attempt, max_retries) == attempt < max_retries - 1

RECURSIVE SeqMin(_)
SeqMin(s) ==
    IF Len(s) = 1 THEN s[1] ELSE Min(Head(s), SeqMin(Tail(s)))

RECURSIVE SeqMax(_)
SeqMax(s) ==
    IF Len(s) = 1 THEN s[1]
    ELSE IF Head(s) > SeqMax(Tail(s)) THEN Head(s) ELSE SeqMax(Tail(s))

\* a quotient a / b is kept as the pair of its operands
Ratio(a, b) == [num |-> a, den |-> b]

\* mutant: the rate is taken over the successful runs only
SuccessRate_OfSuccesses(execution_times, iterations) ==
    Ratio(Len(execution_times), Len(execution_times))

\* success_rate = len(execution_times) / iterations
SuccessRate(execution_times, iterations) ==
    Ratio(Len(execution_times), iterations)

\* avg_results / avg_time if avg_time > 0 else 0, both means over n runs
Throughput(execution_times, result_counts) ==
    IF SumSeq(execution_times) > 0
    THEN Ratio(SumSeq(result_counts), SumSeq(execution_times))
    ELSE Ratio(0, 1)

\* QueryResult(...); std_dev, a square root, is left out
MakeQueryResult(q, execution_times, result_counts, iterations) ==
    [query_name      |-> q,
     execution_times |-> execution_times,
     result_counts   |-> result_counts,
     avg_time        |-> Ratio(SumSeq(execution_times), Len(execution_times)),
     min_time        |-> SeqMin(execution_times),
     max_time        |-> SeqMax(execution_times),
     throughput      |-> Throughput(execution_times, result_counts),
     success_rate    |-> SuccessRate(execution_times, iterations)]

QueryFrame == UNCHANGED <<imp, tok, prn, cmp, fin, scr, gen>>

QueryRecord(mode, max_retries, queries, iterations, warmup_iterations) ==
    [mode              |-> mode,
     pc                |-> IF mode = "direct" THEN "eq" ELSE "q_loop",
     caller            |-> "direct",
     max_retries       |-> max_retries,
     attempt           |-> 0,
     clock             |-> 0,
     tries             |-> <<>>,
     ret               |-> None,
     queries           |-> queries,
     iterations        |-> iterations,
     warmup_iterations |-> warmup_iterations,
     qi                |-> 1,
     i                 |-> 0,
     execution_times   |-> <<>>,
     result_counts     |-> <<>>,
     errors            |-> <<>>,
     all_results       |-> <<>>,
     calls             |-> <<>>]

InitQuery ==
    /\ imp = Idle /\ tok = Idle /\ prn = Idle /\ cmp = Idle
    /\ fin = Idle /\ scr = Idle /\ gen = Idle
    /\ \/ \E r \in 0..MaxRetries :
             qry = QueryRecord("direct", r, 0, 0, 0)
       \/ \E nq \in 0..MaxCalls, it \in 0..MaxCalls, wu \in 0..MaxCalls :
             /\ nq * (it + wu) <= MaxCalls
             /\ qry = QueryRecord("perf", DefaultMaxRetries, nq, it, wu)

\* the query returned tables: time it, count the records, return
QueryOk ==
    /\ qry.pc = "eq"
    /\ QueryFrame
    /\ qry.attempt < qry.max_retries
    /\ \E d \in Durations, tables \in TableSets :
         LET start_time == qry.clock
             end_time   == qry.clock + d
         IN qry' = [qry EXCEPT
              !.pc = "eq_ret",
              !.clock = end_time,
              !.tries = Append(@, [dur |-> d, ok |-> TRUE, slept |-> 0,
                                  tables |-> tables, err |-> None]),
              !.ret = <<ExecutionTime(start_time, end_time),
                        ResultCount(tables), None>>]

\* the attempt raised and attempts remain: sleep one second, try again
QueryRetry ==
    /\ qry.pc = "eq"
    /\ QueryFrame
    /\ qry.attempt < qry.max_retries
    /\ QueryShouldRetry(qry.attempt, qry.max_retries)
    /\ \E d \in Durations, e \in ErrTexts :
         qry' = [qry EXCEPT
              !.attempt = @ + 1,
              !.clock = @ + d + 1,
              !.tries = Append(@, [dur |-> d, ok |-> FALSE, slept |-> 1,
                                  tables |-> <<>>, err |-> Str(e)])]

\* the last attempt raised: return its text
QueryGiveUp ==
    /\ qry.pc = "eq"
    /\ QueryFrame
    /\ qry.attempt < qry.max_retries
    /\ ~QueryShouldRetry(qry.attempt, qry.max_retries)
    /\ \E d \in Durations, e \in ErrTexts :
         qry' = [qry EXCEPT
              !.pc = "eq_ret",
              !.attempt = @ + 1,
              !.clock = @ + d,
              !.tries = Append(@, [dur |-> d, ok |-> FALSE, slept |-> 0,
                                  tables |-> <<>>, err |-> Str(e)]),
              !.ret = <<0, 0, Str(e)>>]

\* range(max_retries) was empty
QueryNoAttempt ==
    /\ qry.pc = "eq"
    /\ QueryFrame
    /\ qry.attempt >= qry.max_retries
    /\ qry' = [qry EXCEPT
         !.pc = "eq_ret",
         !.ret = <<0, 0, Str("Max retries exceeded")>>]

DirectReturn ==
    /\ qry.pc = "eq_ret"
    /\ QueryFrame
    /\ qry.caller = "direct"
    /\ qry' = [qry EXCEPT !.pc = "done"]

\* self.execute_query(query_def["query"]) with the default max_retries
CallExecuteQuery(caller) ==
    [qry EXCEPT
       !.pc = "eq",
       !.caller = caller,
       !.max_retries = DefaultMaxRetries,
       !.attempt = 0,
       !.clock = 0,
       !.tries = <<>>,
       !.ret = None]

\* next query_def: fresh execution_times, result_counts, errors
PerfQueryStart ==
    /\ qry.pc = "q_loop"
    /\ QueryFrame
    /\ qry.qi <= qry.queries
    /\ qry' = [qry EXCEPT
         !.pc = "warm_loop",
         !.i = 0,
         !.execution_times = <<>>,
         !.result_counts = <<>>,
         !.errors = <<>>]

WarmupCall ==
    /\ qry.pc = "warm_loop"
    /\ QueryFrame
    /\ qry.i < qry.warmup_iterations
    /\ qry' = CallExecuteQuery("warmup")

\* the warm-up's result is dropped
WarmupReturn ==
    /\ qry.pc = "eq_ret"
    /\ QueryFrame
    /\ qry.caller = "warmup"
    /\ qry' = [qry EXCEPT
         !.pc = "warm_loop",
         !.i = @ + 1,
         !.calls = Append(@, [query |-> qry.qi, kind |-> "warmup"])]

WarmupEnd ==
    /\ qry.pc = "warm_loop"
    /\ QueryFrame
    /\ qry.i >= qry.warmup_iterations
    /\ qry' = [qry EXCEPT !.pc = "iter_loop", !.i = 0]

MeasureCall ==
    /\ qry.pc = "iter_loop"
    /\ QueryFrame
    /\ qry.i < qry.iterations
    /\ qry' = CallExecuteQuery("measure")

\* if error: errors.append(error)  else: both lists grow
MeasureReturn ==
    /\ qry.pc = "eq_ret"
    /\ QueryFrame
    /\ qry.caller = "measure"
    /\ qry' = [qry EXCEPT
         !.pc = "iter_loop",
         !.i = @ + 1,
         !.calls = Append(@, [query |-> qry.qi, kind |-> "measure"]),
         !.errors =
             IF Truthy(qry.ret[3]) THEN Append(@, qry.ret[3]) ELSE @,
         !.execution_times =
             IF Truthy(qry.ret[3]) THEN @ ELSE Append(@, qry.ret[1]),
         !.result_counts =
             IF Truthy(qry.ret[3]) THEN @ ELSE Append(@, qry.ret[2])]

\* statistics of the query, kept only if a run succeeded
QueryStats ==
    /\ qry.pc = "iter_loop"
    /\ QueryFrame
    /\ qry.i >= qry.iterations
    /\ qry' = [qry EXCEPT
         !.pc = "q_loop",
         !.qi = @ + 1,
         !.all_results =
             IF qry.execution_times # <<>>
             THEN Append(@, MakeQueryResult(qry.qi, qry.execution_times,
                                            qry.result_counts, qry.iterations))
             ELSE @]

PerfReturn ==
    /\ qry.pc = "q_loop"
    /\ QueryFrame
    /\ qry.qi > qry.queries
    /\ qry' = [qry EXCEPT !.pc = "done"]

NextQuery ==
    \/ QueryOk
    \/ QueryRetry
    \/ QueryGiveUp
    \/ QueryNoAttempt
    \/ DirectReturn
    \/ PerfQueryStart
    \/ WarmupCall
    \/ WarmupReturn
    \/ WarmupEnd
    \/ MeasureCall
    \/ MeasureReturn
    \/ QueryStats
    \/ PerfReturn

SpecQuery == InitQuery /\ [][NextQuery]_vars

(***************************************************************************)
(* Claims about execute_query and run_performance_test.                    *)
(***************************************************************************)
C4_Attempts ==
    /\ Len(qry.tries) <= qry.max_retries
    /\ \A k \in 1..Len(qry.tries) :
         \* an attempt is followed by another one iff it raised and is not the
         \* last; one second of sleep lies between the two
         /\ k < Len(qry.tries) =>
               ~qry.tries[k].ok /\ qry.tries[k].slept = 1
         /\ qry.tries[k].ok => qry.tries[k].slept = 0
         /\ k = qry.max_retries => qry.tries[k].slept = 0
    /\ qry.clock =
          SumSeq([k \in 1..Len(qry.tries) |->
                     qry.tries[k].dur + qry.tries[k].slept])

C4_Return ==
    qry.pc = "eq_ret" =>
        /\ Len(qry.ret) = 3
        /\ qry.tries = <<>> =>
              /\ qry.max_retries = 0
              /\ qry.ret = <<0, 0, Str("Max retries exceeded")>>
        /\ (qry.tries # <<>> /\ Last(qry.tries).ok) =>
              /\ qry.ret[1] = Last(qry.tries).dur
              /\ qry.ret[2] = SumSeq(Last(qry.tries).tables)
              /\ qry.ret[3] = None
        /\ (qry.tries # <<>> /\ ~Last(qry.tries).ok) =>
              /\ Len(qry.tries) = qry.max_retries
              /\ qry.ret = <<0, 0, Last(qry.tries).err>>

\* C4: execute_query makes at most max_retries attempts with a one-second
\* sleep between two attempts; it returns (time of the successful attempt
\* alone, records summed over the tables, None) at the first success,
\* (0, 0, text of the last exception) when the last attempt raises and
\* (0, 0, "Max retries exceeded") when max_retries is 0; every path out of it
\* is a return.
C4_ExecuteQuery ==
    /\ C4_Attempts
    /\ C4_Return
    /\ qry.pc # "idle" =>
          qry.pc \in {"eq", "eq_ret", "q_loop", "warm_loop", "iter_loop", "done"}

C4_Witness ==
    /\ qry.mode = "direct"
    /\ qry.pc = "eq_ret"
    /\ Len(qry.tries) = 3
    /\ qry.tries[1].dur = 2
    /\ Last(qry.tries).ok
    /\ qry.ret = <<1, 3, None>>
    /\ qry.clock = 7

MeasuredCalls(q) ==
    Cardinality({k \in 1..Len(qry.calls) :
        qry.calls[k].query = q /\ qry.calls[k].kind = "measure"})

WarmupCalls(q) ==
    Cardinality({k \in 1..Len(qry.calls) :
        qry.calls[k].query = q /\ qry.calls[k].kind = "warmup"})

\* the calls come query by query, and within a query warm-ups come first
CallsOrdered ==
    \A j, k \in 1..Len(qry.calls) :
        j < k =>
          /\ qry.calls[j].query <= qry.calls[k].query
          /\ (qry.calls[j].query = qry.calls[k].query
                /\ qry.calls[k].kind = "warmup") => qry.calls[j].kind = "warmup"

ResultOk(r) ==
    /\ Len(r.execution_times) = Len(r.result_counts)
    /\ Len(r.execution_times) >= 1
    /\ r.success_rate = Ratio(Len(r.execution_times), qry.iterations)
    /\ r.success_rate.den > 0
    /\ 0 <= r.success_rate.num /\ r.success_rate.num <= r.success_rate.den
    /\ r.min_time = SeqMin(r.execution_times)
    /\ r.max_time = SeqMax(r.execution_times)
    /\ r.avg_time = Ratio(SumSeq(r.execution_times), Len(r.execution_times))

C5_Counts ==
    qry.mode = "perf" =>
      /\ CallsOrdered
      /\ Len(qry.execution_times) = Len(qry.result_counts)
      \* while a query is being measured
      /\ qry.pc \in {"iter_loop", "eq", "eq_ret"} /\ qry.caller = "measure" =>
            /\ WarmupCalls(qry.qi) = qry.warmup_iterations
            /\ Len(qry.execution_times) + Len(qry.errors) = MeasuredCalls(qry.qi)
      /\ qry.pc = "warm_loop" =>
            /\ qry.execution_times = <<>> /\ qry.errors = <<>>
            /\ MeasuredCalls(qry.qi) = 0
      \* when the measured runs of a query are over
      /\ (qry.pc = "iter_loop" /\ qry.i >= qry.iterations) =>
            Len(qry.execution_times) + Len(qry.errors) = qry.iterations
      \* every finished query had its warm-ups and its measured runs
      /\ \A q \in 1..(qry.qi - 1) :
            /\ WarmupCalls(q) = qry.warmup_iterations
            /\ MeasuredCalls(q) = qry.iterations
      \* the results are in the order of the queries
      /\ \A k \in 1..Len(qry.all_results) :
            /\ ResultOk(qry.all_results[k])
            /\ qry.all_results[k].query_name < qry.qi
            /\ k > 1 => qry.all_results[k - 1].query_name
                           < qry.all_results[k].query_name

\* what one step may do to the lists of the query being measured
C5_Step ==
    LET grew == Len(qry'.execution_times) + Len(qry'.errors)
                  - Len(qry.execution_times) - Len(qry.errors)
    IN
    /\ (qry.pc = "eq_ret" /\ qry.caller = "warmup") =>
          /\ qry'.execution_times = qry.execution_times
          /\ qry'.result_counts = qry.result_counts
          /\ qry'.errors = qry.errors
          /\ qry'.all_results = qry.all_results
    /\ (qry.pc = "eq_ret" /\ qry.caller = "measure") =>
          /\ grew = 1
          /\ \/ /\ qry'.execution_times = Append(qry.execution_times, qry.ret[1])
                /\ qry'.result_counts = Append(qry.result_counts, qry.ret[2])
                /\ qry'.errors = qry.errors
             \/ /\ qry'.errors = Append(qry.errors, qry.ret[3])
                /\ qry.ret[3] # None
                /\ qry'.execution_times = qry.execution_times
                /\ qry'.result_counts = qry.result_counts
    /\ (qry.mode = "perf" /\ qry.pc \notin {"eq_ret", "q_loop"}) => grew = 0

\* C5: each query runs exactly warmup_iterations warm-ups before its measured
\* runs, and a warm-up changes neither execution_times, result_counts nor any
\* result; over the measured runs len(execution_times) = len(result_counts),
\* len(execution_times) + len(errors) = iterations, success_rate =
\* len(execution_times) / iterations lies in [0, 1]; the queries are measured
\* in the order given and the results keep that order.
C5_PerformanceTest == []C5_Counts /\ [][C5_Step]_vars

C5_Witness ==
    /\ qry.mode = "perf"
    /\ qry.pc = "done"
    /\ qry.queries = 2
    /\ qry.calls = <<[query |-> 1, kind |-> "warmup"],
                     [query |-> 1, kind |-> "measure"],
                     [query |-> 2, kind |-> "warmup"],
                     [query |-> 2, kind |-> "measure"]>>
    /\ Len(qry.all_results) = 1
    /\ qry.all_results[1].query_name = 2
    /\ qry.all_results[1].success_rate = Ratio(1, 1)

(***************************************************************************)
(* SecurityTokenManager                                                    *)
(*                                                                         *)
(* Strings that the code formats, searches or splits are sequences of      *)
(* one-character strings, so that formatting and parsing are computed as   *)
(* the code computes them; a missing (None) or empty name or id is <<>>.   *)
(* A description is a sequence of words (<<>> when empty), so that the     *)
(* rotated description is built from the old one; user and org names are  *)
(* atoms.                                                                  *)
(*                                                                         *)
(* tok.auths is the server's list of authorizations in the order           *)
(* find_authorizations returns them.  Secret and Secret2 are the secret    *)
(* token strings of two servers that are alike in everything else.         *)
(* Every SDK call either returns or raises.  A run is one call of the     *)
(* manager on some server state: tok.pc is "ready" before the call,        *)
(* "returned" after it and a position of rotate_tokens in between.         *)
(* tok.last records the last call: its name, whether an SDK call in it     *)
(* raised, and what it returned (raised |-> TRUE if it raised instead).    *)
(***************************************************************************)
MaxTokens == 2
MaxAuths == 5

W_read == <<"r", "e", "a", "d">>
W_write == <<"w", "r", "i", "t", "e">>
W_buckets == <<"b", "u", "c", "k", "e", "t", "s">>
W_orgs == <<"o", "r", "g", "s">>
W_iot == <<"i", "o", "t">>
W_rewrite == <<"r", "e", "w", "r", "i", "t", "e">>
W_b1 == <<"b", "1">>
W_withid == <<"w", "i", "t", "h", " ", "i", "d">>
W_authorizations ==
    <<"a", "u", "t", "h", "o", "r", "i",
      "z", "a", "t", "i", "o", "n", "s">>
W_dashboards == <<"d", "a", "s", "h", "b", "o", "a", "r", "d", "s">>
W_sources == <<"s", "o", "u", "r", "c", "e", "s">>
W_tasks == <<"t", "a", "s", "k", "s">>
W_telegrafs == <<"t", "e", "l", "e", "g", "r", "a", "f", "s">>
W_users == <<"u", "s", "e", "r", "s">>
W_variables == <<"v", "a", "r", "i", "a", "b", "l", "e", "s">>
W_scrapers == <<"s", "c", "r", "a", "p", "e", "r", "s">>
W_secrets == <<"s", "e", "c", "r", "e", "t", "s">>
W_labels == <<"l", "a", "b", "e", "l", "s">>
W_views == <<"v", "i", "e", "w", "s">>
W_documents == <<"d", "o", "c", "u", "m", "e", "n", "t", "s">>
W_notificationRules ==
    <<"n", "o", "t", "i", "f", "i", "c", "a",
      "t", "i", "o", "n", "R", "u", "l", "e", "s">>
W_notificationEndpoints ==
    <<"n", "o", "t", "i", "f", "i", "c", "a", "t", "i",
      "o", "n", "E", "n", "d", "p", "o", "i", "n", "t", "s">>
W_checks == <<"c", "h", "e", "c", "k", "s">>
W_dbrp == <<"d", "b", "r", "p">>
W_notebooks == <<"n", "o", "t", "e", "b", "o", "o", "k", "s">>
W_annotations == <<"a", "n", "n", "o", "t", "a", "t", "i", "o", "n", "s">>
W_remotes == <<"r", "e", "m", "o", "t", "e", "s">>
W_replications ==
    <<"r", "e", "p", "l", "i", "c",
      "a", "t", "i", "o", "n", "s">>
W_health_iot_metrics ==
    <<"h", "e", "a", "l", "t", "h", "_", "i", "o",
      "t", "_", "m", "e", "t", "r", "i", "c", "s">>
W_raw_vitals == <<"r", "a", "w", "_", "v", "i", "t", "a", "l", "s">>
W_alerts == <<"a", "l", "e", "r", "t", "s">>
W_aggregated_stats ==
    <<"a", "g", "g", "r", "e", "g", "a", "t",
      "e", "d", "_", "s", "t", "a", "t", "s">>
W_benchmark_results ==
    <<"b", "e", "n", "c", "h", "m", "a", "r",
      "k", "_", "r", "e", "s", "u", "l", "t", "s">>
Space == " "
Quote == "'"

\* sub in s, for Python strings
Contains(sub, s) ==
    \E k \in 0..(Len(s) - Len(sub)) :
        \A j \in 1..Len(sub) : s[k + j] = sub[j]

\* s.split(): the maximal runs of non-blank characters
RECURSIVE SplitFrom(_, _, _)
SplitFrom(s, k, word) ==
    IF k > Len(s)
    THEN IF word = <<>> THEN <<>> ELSE <<word>>
    ELSE IF s[k] = Space
         THEN IF word = <<>> THEN SplitFrom(s, k + 1, <<>>)
              ELSE <<word>> \o SplitFrom(s, k + 1, <<>>)
         ELSE SplitFrom(s, k + 1, Append(word, s[k]))

Split(s) == SplitFrom(s, 1, <<>>)

\* a permission as the server holds it
Perm(action, resource_type, name, id) ==
    [action |-> action, resource_type |-> resource_type, name |-> name, id |-> id]

\* the permission strings of list_tokens and get_token_info
FormatPerm(perm) ==
    IF perm.name # <<>>
    THEN perm.action \o <<Space>> \o perm.resource_type
            \o <<Space, Quote>> \o perm.name \o <<Quote>>
    ELSE IF perm.id # <<>>
    THEN perm.action \o <<Space>> \o perm.resource_type \o <<Space>>
            \o W_withid \o <<Space, Quote>> \o perm.id \o <<Quote>>
    ELSE perm.action \o <<Space>> \o perm.resource_type

\* rotate_tokens: the action read back from a permission string
ParseAction(perm_str) ==
    IF Contains(W_write, perm_str) /\ Contains(W_read, perm_str) THEN W_write
    ELSE IF Contains(W_write, perm_str) THEN W_write
    ELSE IF Contains(W_read, perm_str) THEN W_read
    ELSE W_read

\* rotate_tokens: the resource type read back from a permission string
ParseResourceType(perm_str) ==
    IF Len(Split(perm_str)) > 1 THEN Split(perm_str)[2] ELSE W_buckets

\* rotate_tokens: {"action": action, "resource_type": resource_type}, which
\* create_token turns into PermissionResource(type, id=None, name=None)
ParsePerm(perm_str) ==
    Perm(ParseAction(perm_str), ParseResourceType(perm_str), <<>>, <<>>)

\* datetime.isoformat()
Iso(t) == <<"iso", t>>

\* mutant: a missing description is filled with the token string
ConvertAuth_Leak(auth) ==
    [id          |-> auth.id,
     description |-> IF auth.description # <<>> THEN auth.description
                     ELSE auth.token,
     permissions |-> [k \in 1..Len(auth.permissions) |->
                         FormatPerm(auth.permissions[k])],
     created_at  |-> auth.created_at,
     updated_at  |-> auth.updated_at,
     status      |-> IF auth.status = "active" THEN "active" ELSE "inactive",
     user_name   |-> auth.user,
     user_id     |-> auth.user_id,
     org_name    |-> auth.org,
     org_id      |-> auth.org_id]

\* TokenInfo(...) built from an Authorization
ConvertAuth(auth) ==
    [id          |-> auth.id,
     description |-> IF auth.description # <<>> THEN auth.description
                     ELSE <<"No description">>,
     permissions |-> [k \in 1..Len(auth.permissions) |->
                         FormatPerm(auth.permissions[k])],
     created_at  |-> auth.created_at,
     updated_at  |-> auth.updated_at,
     status      |-> IF auth.status = "active" THEN "active" ELSE "inactive",
     user_name   |-> auth.user,
     user_id     |-> auth.user_id,
     org_name    |-> auth.org,
     org_id      |-> auth.org_id]

\* an authorization whose permissions the SDK hands over as None: iterating
\* them raises TypeError
Broken(auth) == auth.permissions_none

\* the Authorization objects a server with the given secrets returns
AuthObjects(auths, secret) ==
    [k \in 1..Len(auths) |->
        [auths[k] EXCEPT !.token = secret[auths[k].id]]]

\* the loop of list_tokens: convert until one conversion raises
RECURSIVE ConvertUntilError(_)
ConvertUntilError(objs) ==
    IF objs = <<>> \/ Broken(Head(objs)) THEN <<>>
    ELSE <<ConvertAuth(Head(objs))>> \o ConvertUntilError(Tail(objs))

\* list_tokens, given whether find_authorizations raised
ListTokens(objs, find_raised) ==
    IF find_raised THEN <<>> ELSE ConvertUntilError(objs)

\* one record of export_tokens' export_data
ExportRecord(token) ==
    [id          |-> token.id,
     description |-> token.description,
     permissions |-> token.permissions,
     created_at  |-> Iso(token.created_at),
     updated_at  |-> Iso(token.updated_at),
     status      |-> token.status,
     user_name   |-> token.user_name,
     user_id     |-> token.user_id,
     org_name    |-> token.org_name,
     org_id      |-> token.org_id]

\* export_data of export_tokens
ExportData(tokens) == [k \in 1..Len(tokens) |-> ExportRecord(tokens[k])]

\* mutant: the error path reports success too
DeleteResult_AlwaysTrue(sdk_raised) == TRUE

\* delete_token: True from the try, False from the except
DeleteResult(sdk_raised) == ~sdk_raised

\* the authorizations a server may hold at the start (id and token string
\* are given by the server)
AuthPool ==
    { [description |-> <<"ingest">>, status |-> "active",
       permissions_none |-> FALSE,
       permissions |-> <<Perm(W_write, W_buckets, W_iot, <<>>)>>],
      [description |-> <<>>, status |-> "inactive", permissions_none |-> FALSE,
       permissions |-> <<Perm(W_read, W_buckets, <<>>, <<>>)>>],
      [description |-> <<"dashboard">>, status |-> "active", permissions_none |-> FALSE,
       permissions |-> <<Perm(W_read, W_buckets, W_rewrite, <<>>),
                         Perm(W_read, W_buckets, <<>>, W_b1)>>],
      [description |-> <<"admin">>, status |-> "active", permissions_none |-> FALSE,
       permissions |-> <<Perm(W_read, W_orgs, <<>>, <<>>),
                         Perm(W_write, W_orgs, <<>>, <<>>)>>],
      [description |-> <<"odd">>, status |-> "active", permissions_none |-> TRUE,
       permissions |-> <<>>] }

\* the token strings of the two servers: they differ for every authorization
Secret == [id \in 1..MaxAuths |-> <<"token-a", id>>]

Secret2 == [id \in 1..MaxAuths |-> <<"token-b", id>>]

\* an Authorization as the server stores it
MakeAuth(id, description, permissions, permissions_none, status, now) ==
    [id |-> id, description |-> description, permissions |-> permissions,
     permissions_none |-> permissions_none, status |-> status, created_at |-> now, updated_at |-> now,
     user |-> "alice", user_id |-> "u1", org |-> "health", org_id |-> "o1",
     token |-> <<>>]

AuthIndex(auths, id) ==
    IF \E k \in 1..Len(auths) : auths[k].id = id
    THEN CHOOSE k \in 1..Len(auths) : auths[k].id = id
    ELSE 0

\* find_authorization_by_id raises for an id the server does not hold
Known(auths, id) == AuthIndex(auths, id) # 0

\* get_token_info: None from the except, else the TokenInfo
GetTokenInfo(objs, id, sdk_raised) ==
    IF sdk_raised \/ ~Known(objs, id) \/ Broken(objs[AuthIndex(objs, id)])
    THEN None
    ELSE <<ConvertAuth(objs[AuthIndex(objs, id)])>>

\* Python None where the value is an atom
NoneStr == "<None>"

\* mutant: the server ignores the status of the request
UpdateAuth_KeepsStatus(auth, description, status, now) ==
    [auth EXCEPT
       !.description = IF description = None THEN @ ELSE description[1],
       !.updated_at = now]

\* the server applies the fields an AuthorizationUpdateRequest carries
UpdateAuth(auth, description, status, now) ==
    [auth EXCEPT
       !.description = IF description = None THEN @ ELSE description[1],
       !.status = IF status = NoneStr THEN @ ELSE status,
       !.updated_at = now]

\* update_authorization on the server
ServerUpdate(auths, id, description, status, now) ==
    [k \in 1..Len(auths) |->
        IF auths[k].id = id
        THEN UpdateAuth(auths[k], description, status, now)
        ELSE auths[k]]

\* delete_authorization on the server
ServerDelete(auths, id) ==
    SelectSeq(auths, LAMBDA a : a.id # id)

\* create_authorization on the server: a new active authorization
ServerCreate(auths, id, description, permissions, now) ==
    Append(auths, MakeAuth(id, description, permissions, FALSE, "active", now))

\* the permission dictionaries callers hand to create_token; one that lacks
\* "resource_type" makes create_token raise KeyError inside its try
CreateRequests ==
    { [malformed |-> FALSE,
       permissions |-> <<Perm(W_read, W_buckets, W_iot, <<>>)>>],
      [malformed |-> TRUE, permissions |-> <<>>] }

\* where create_token stops: before the server created anything (KeyError,
\* get_org_id or create_authorization raised), after the creation
\* (get_token_info returned None), or not at all
CreateOutcomes == {"org_raised", "create_raised", "info_raised", "ok"}

Created(outcome) == outcome \in {"info_raised", "ok"}

TokenFrame == UNCHANGED <<imp, qry, prn, cmp, fin, scr, gen>>

NoCall == [op |-> "none", arg |-> 0, sdk_raised |-> FALSE, raised |-> FALSE,
           ret |-> <<>>]

Call(op, arg, sdk_raised, ret) ==
    [op |-> op, arg |-> arg, sdk_raised |-> sdk_raised, raised |-> FALSE,
     ret |-> ret]

InitTokens ==
    /\ imp = Idle /\ qry = Idle /\ prn = Idle /\ cmp = Idle
    /\ fin = Idle /\ scr = Idle /\ gen = Idle
    /\ \E n \in 0..MaxTokens :
       \E pick \in [1..n -> AuthPool] :
          tok = [pc          |-> "ready",
                 auths       |-> [k \in 1..n |->
                                    MakeAuth(k, pick[k].description,
                                             pick[k].permissions,
                                             pick[k].permissions_none,
                                             pick[k].status, 1)],
                 next_id     |-> n + 1,
                 now         |-> 1,
                 last        |-> NoCall,
                 file        |-> <<>>,
                 file2       |-> <<>>,
                 file_partial |-> FALSE,
                 token_ids   |-> <<>>,
                 ri          |-> 1,
                 token_info  |-> <<>>,
                 permissions |-> <<>>,
                 successful  |-> <<>>,
                 failed      |-> <<>>,
                 requested   |-> <<>>,
                 di          |-> 1,
                 created_tokens |-> <<>>]

Objs == AuthObjects(tok.auths, Secret)

Objs2 == AuthObjects(tok.auths, Secret2)

Ready == tok.pc = "ready"

\* list_tokens()
OpList ==
    /\ Ready
    /\ TokenFrame
    /\ \E find_raised \in BOOLEAN :
         tok' = [tok EXCEPT
            !.pc = "returned",
            !.last = Call("list", 0,
                          find_raised \/ \E k \in 1..Len(Objs) : Broken(Objs[k]),
                          ListTokens(Objs, find_raised))]

\* get_token_info(token_id)
OpGet ==
    /\ Ready
    /\ TokenFrame
    /\ \E id \in 1..MaxAuths, sdk_raised \in BOOLEAN :
         tok' = [tok EXCEPT
            !.pc = "returned",
            !.last = Call("get", id,
                          sdk_raised \/ ~Known(Objs, id)
                             \/ Broken(Objs[AuthIndex(Objs, id)]),
                          GetTokenInfo(Objs, id, sdk_raised))]

\* create_token(description, permissions)
OpCreate ==
    /\ Ready
    /\ TokenFrame
    /\ tok.next_id <= MaxAuths
    /\ \E req \in CreateRequests, outcome \in CreateOutcomes :
         /\ req.malformed => outcome = "org_raised"
         /\ LET auths2 == IF Created(outcome)
                          THEN ServerCreate(tok.auths, tok.next_id, <<"new">>,
                                            req.permissions, tok.now + 1)
                          ELSE tok.auths
            IN tok' = [tok EXCEPT
                 !.pc = "returned",
                 !.auths = auths2,
                 !.now = IF Created(outcome) THEN @ + 1 ELSE @,
                 !.next_id = IF Created(outcome) THEN @ + 1 ELSE @,
                 !.last = Call("create", 0, outcome # "ok",
                     IF Created(outcome)
                     THEN GetTokenInfo(AuthObjects(auths2, Secret),
                                       tok.next_id, outcome = "info_raised")
                     ELSE None)]

\* update_token(token_id, description, status)
OpUpdate ==
    /\ Ready
    /\ TokenFrame
    /\ \E id \in 1..MaxAuths, description \in {None, Str(<<"renamed">>)},
          status \in {NoneStr, "inactive"},
          update_raised \in BOOLEAN, info_raised \in BOOLEAN :
         LET failed == update_raised \/ ~Known(tok.auths, id)
             auths2 == IF failed THEN tok.auths
                       ELSE ServerUpdate(tok.auths, id, description, status,
                                         tok.now + 1)
         IN /\ failed => ~info_raised
            /\ tok' = [tok EXCEPT
                 !.pc = "returned",
                 !.auths = auths2,
                 !.now = IF failed THEN @ ELSE @ + 1,
                 !.last = Call("update", id,
                     failed \/ info_raised
                        \/ Broken(auths2[AuthIndex(auths2, id)]),
                     IF failed THEN None
                     ELSE GetTokenInfo(AuthObjects(auths2, Secret), id,
                                       info_raised))]

\* delete_token(token_id)
OpDelete ==
    /\ Ready
    /\ TokenFrame
    /\ \E id \in 1..MaxAuths, sdk_raised \in BOOLEAN :
         LET failed == sdk_raised \/ ~Known(tok.auths, id)
         IN tok' = [tok EXCEPT
              !.pc = "returned",
              !.auths = IF failed THEN @ ELSE ServerDelete(@, id),
              !.last = Call("delete", id, failed, <<DeleteResult(failed)>>)]

\* the keys of one export_data entry, in the order json.dump writes them
ExportKeys ==
    <<"id", "description", "permissions", "created_at", "updated_at",
      "status", "user_name", "user_id", "org_name", "org_id">>

\* what open(output_file, "w") and json.dump leave behind: the whole list,
\* or, when json.dump raises, the file open() truncated holding what was
\* written before the failure: written whole records and the first keys of
\* the next one
Written(export_data, written, keys) ==
    LET record == export_data[written + 1]
        part   == [f \in {ExportKeys[i] : i \in 1..keys} |-> record[f]]
    IN  IF keys = 0 THEN SubSeq(export_data, 1, written)
        ELSE Append(SubSeq(export_data, 1, written), part)

\* export_tokens(output_file), the same call against both servers: building
\* export_data or open() raises and the file is untouched, json.dump raises
\* after open() truncated the file, or the export is written; every
\* exception gives False
OpExport ==
    /\ Ready
    /\ TokenFrame
    /\ \E find_raised \in BOOLEAN,
          write \in {"open_raised", "dump_raised", "ok"} :
         LET export_data  == ExportData(ListTokens(Objs, find_raised))
             export_data2 == ExportData(ListTokens(Objs2, find_raised))
         IN  \E written \in 0..Len(export_data),
                  keys \in 0..(Len(ExportKeys) - 1) :
               /\ write = "ok" => written = Len(export_data) /\ keys = 0
               /\ write = "open_raised" => written = 0 /\ keys = 0
               /\ written = Len(export_data) => keys = 0
               /\ tok' = [tok EXCEPT
                    !.pc = "returned",
                    !.file = IF write = "open_raised" THEN @
                             ELSE <<Written(export_data, written, keys)>>,
                    !.file2 = IF write = "open_raised" THEN @
                              ELSE <<Written(export_data2, written, keys)>>,
                    !.file_partial = (write = "dump_raised"),
                    !.last = Call("export", 0, find_raised \/ write # "ok",
                                  <<write = "ok">>)]

\* f"{token_info.description} (Rotated {datetime.now().date()})"
RotatedDescription(description) == Append(description, "(Rotated today)")

\* the token_ids lists rotate_tokens is called with
RotateLists ==
    {<<a>> : a \in 1..MaxAuths}
       \cup {<<a, b>> : a \in 1..MaxAuths, b \in 2..MaxAuths}

\* rotate_tokens(token_ids): results = {"successful": [], "failed": []}
RotateStart ==
    /\ Ready
    /\ TokenFrame
    /\ \E ids \in RotateLists :
         /\ tok.next_id + Len(ids) - 1 <= MaxAuths
         /\ tok' = [tok EXCEPT
              !.pc = "rot_loop",
              !.token_ids = ids,
              !.ri = 1,
              !.successful = <<>>,
              !.failed = <<>>,
              !.requested = <<>>]

\* token_info = self.get_token_info(token_id); the permission strings are
\* parsed back into dictionaries
RotateGetInfo ==
    /\ tok.pc = "rot_loop"
    /\ TokenFrame
    /\ tok.ri <= Len(tok.token_ids)
    /\ \E sdk_raised \in BOOLEAN :
         LET token_id == tok.token_ids[tok.ri]
             info     == GetTokenInfo(Objs, token_id, sdk_raised)
         IN IF info = None
            THEN tok' = [tok EXCEPT
                   !.ri = @ + 1,
                   !.failed = Append(@, [token_id |-> token_id,
                                         error |-> "Token not found"])]
            ELSE tok' = [tok EXCEPT
                   !.pc = "rot_deact",
                   !.token_info = info,
                   !.permissions =
                       [k \in 1..Len(info[1].permissions) |->
                           ParsePerm(info[1].permissions[k])]]

\* self.update_token(token_id, status="inactive"), its result unused
RotateDeactivate ==
    /\ tok.pc = "rot_deact"
    /\ TokenFrame
    /\ \E update_raised \in BOOLEAN :
         LET token_id == tok.token_ids[tok.ri]
             failed   == update_raised \/ ~Known(tok.auths, token_id)
         IN tok' = [tok EXCEPT
              !.pc = "rot_create",
              !.auths = IF failed THEN @
                        ELSE ServerUpdate(@, token_id, None, "inactive",
                                          tok.now + 1),
              !.now = IF failed THEN @ ELSE @ + 1]

\* new_token_info = self.create_token(...): reported under successful if it
\* is not None, under failed otherwise
RotateCreate ==
    /\ tok.pc = "rot_create"
    /\ TokenFrame
    /\ \E outcome \in CreateOutcomes :
         LET token_id  == tok.token_ids[tok.ri]
             old       == tok.auths[AuthIndex(tok.auths, token_id)]
             desc      == RotatedDescription(tok.token_info[1].description)
             auths2    == IF Created(outcome)
                          THEN ServerCreate(tok.auths, tok.next_id, desc,
                                            tok.permissions, tok.now + 1)
                          ELSE tok.auths
             new_info  == IF Created(outcome)
                          THEN GetTokenInfo(AuthObjects(auths2, Secret),
                                            tok.next_id, outcome = "info_raised")
                          ELSE None
         IN tok' = [tok EXCEPT
              !.pc = "rot_loop",
              !.ri = @ + 1,
              !.auths = auths2,
              !.now = IF Created(outcome) THEN @ + 1 ELSE @,
              !.next_id = IF Created(outcome) THEN @ + 1 ELSE @,
              !.requested =
                  IF outcome = "org_raised" THEN @
                  ELSE Append(@, [token_id |-> token_id,
                                  old |-> old.permissions,
                                  new |-> tok.permissions]),
              !.successful =
                  IF new_info # None
                  THEN Append(@, [old_token_id |-> token_id,
                                  new_token_id |-> new_info[1].id])
                  ELSE @,
              !.failed =
                  IF new_info = None
                  THEN Append(@, [token_id |-> token_id,
                                  error |-> "Failed to create new token"])
                  ELSE @]

\* return results
RotateEnd ==
    /\ tok.pc = "rot_loop"
    /\ TokenFrame
    /\ tok.ri > Len(tok.token_ids)
    /\ tok' = [tok EXCEPT
         !.pc = "returned",
         !.last = Call("rotate", 0, FALSE,
                       <<[successful |-> tok.successful,
                          failed |-> tok.failed]>>)]

\* token_definitions of create_health_iot_tokens
TokenDefinitions ==
    <<[name |-> "health_iot_admin",
       description |-> <<"Full access token for Health IoT administrators">>,
       permissions |->
          <<Perm(W_read, W_authorizations, <<>>, <<>>),
            Perm(W_write, W_authorizations, <<>>, <<>>),
            Perm(W_read, W_buckets, <<>>, <<>>),
            Perm(W_write, W_buckets, <<>>, <<>>),
            Perm(W_read, W_dashboards, <<>>, <<>>),
            Perm(W_write, W_dashboards, <<>>, <<>>),
            Perm(W_read, W_sources, <<>>, <<>>),
            Perm(W_write, W_sources, <<>>, <<>>),
            Perm(W_read, W_tasks, <<>>, <<>>),
            Perm(W_write, W_tasks, <<>>, <<>>),
            Perm(W_read, W_telegrafs, <<>>, <<>>),
            Perm(W_write, W_telegrafs, <<>>, <<>>),
            Perm(W_read, W_users, <<>>, <<>>),
            Perm(W_write, W_users, <<>>, <<>>),
            Perm(W_read, W_variables, <<>>, <<>>),
            Perm(W_write, W_variables, <<>>, <<>>),
            Perm(W_read, W_scrapers, <<>>, <<>>),
            Perm(W_write, W_scrapers, <<>>, <<>>),
            Perm(W_read, W_secrets, <<>>, <<>>),
            Perm(W_write, W_secrets, <<>>, <<>>),
            Perm(W_read, W_labels, <<>>, <<>>),
            Perm(W_write, W_labels, <<>>, <<>>),
            Perm(W_read, W_views, <<>>, <<>>),
            Perm(W_write, W_views, <<>>, <<>>),
            Perm(W_read, W_documents, <<>>, <<>>),
            Perm(W_write, W_documents, <<>>, <<>>),
            Perm(W_read, W_notificationRules, <<>>, <<>>),
            Perm(W_write, W_notificationRules, <<>>, <<>>),
            Perm(W_read, W_notificationEndpoints, <<>>, <<>>),
            Perm(W_write, W_notificationEndpoints, <<>>, <<>>),
            Perm(W_read, W_checks, <<>>, <<>>),
            Perm(W_write, W_checks, <<>>, <<>>),
            Perm(W_read, W_dbrp, <<>>, <<>>),
            Perm(W_write, W_dbrp, <<>>, <<>>),
            Perm(W_read, W_notebooks, <<>>, <<>>),
            Perm(W_write, W_notebooks, <<>>, <<>>),
            Perm(W_read, W_annotations, <<>>, <<>>),
            Perm(W_write, W_annotations, <<>>, <<>>),
            Perm(W_read, W_remotes, <<>>, <<>>),
            Perm(W_write, W_remotes, <<>>, <<>>),
            Perm(W_read, W_replications, <<>>, <<>>),
            Perm(W_write, W_replications, <<>>, <<>>)>>],
      [name |-> "health_iot_write",
       description |-> <<"Write-only token for data ingestion">>,
       permissions |->
          <<Perm(W_write, W_buckets, W_health_iot_metrics, <<>>),
            Perm(W_write, W_buckets, W_raw_vitals, <<>>),
            Perm(W_write, W_buckets, W_alerts, <<>>)>>],
      [name |-> "health_iot_read",
       description |-> <<"Read-only token for dashboard and queries">>,
       permissions |->
          <<Perm(W_read, W_buckets, W_health_iot_metrics, <<>>),
            Perm(W_read, W_buckets, W_aggregated_stats, <<>>),
            Perm(W_read, W_buckets, W_alerts, <<>>),
            Perm(W_read, W_dashboards, <<>>, <<>>),
            Perm(W_read, W_tasks, <<>>, <<>>)>>],
      [name |-> "health_iot_alert",
       description |-> <<"Token for alert processing and notifications">>,
       permissions |->
          <<Perm(W_read, W_buckets, W_health_iot_metrics, <<>>),
            Perm(W_write, W_buckets, W_alerts, <<>>),
            Perm(W_write, W_notificationEndpoints, <<>>, <<>>),
            Perm(W_read, W_checks, <<>>, <<>>),
            Perm(W_write, W_checks, <<>>, <<>>)>>],
      [name |-> "health_iot_backup",
       description |-> <<"Token for backup and maintenance operations">>,
       permissions |->
          <<Perm(W_read, W_buckets, <<>>, <<>>),
            Perm(W_read, W_tasks, <<>>, <<>>),
            Perm(W_write, W_buckets, W_benchmark_results, <<>>)>>]>>

\* create_health_iot_tokens(): get_org_id() is called outside any try, so
\* its exception reaches the caller before a token is created
HealthStart ==
    /\ Ready
    /\ TokenFrame
    /\ tok.next_id + Len(TokenDefinitions) - 1 <= MaxAuths
    /\ \E org_raised \in BOOLEAN :
         tok' = IF org_raised
                THEN [tok EXCEPT
                        !.pc = "returned",
                        !.last = [Call("create_health_iot", 0, TRUE, <<>>)
                                    EXCEPT !.raised = TRUE]]
                ELSE [tok EXCEPT
                        !.pc = "health_loop",
                        !.di = 1,
                        !.created_tokens = <<>>]

\* one token_def: create_token(description, permissions); the TokenInfo is
\* kept under the name of the definition unless create_token returned None
HealthCreate ==
    /\ tok.pc = "health_loop"
    /\ TokenFrame
    /\ tok.di <= Len(TokenDefinitions)
    /\ \E outcome \in CreateOutcomes :
         LET token_def  == TokenDefinitions[tok.di]
             auths2     == IF Created(outcome)
                           THEN ServerCreate(tok.auths, tok.next_id,
                                             token_def.description,
                                             token_def.permissions, tok.now + 1)
                           ELSE tok.auths
             token_info == IF Created(outcome)
                           THEN GetTokenInfo(AuthObjects(auths2, Secret),
                                             tok.next_id, outcome = "info_raised")
                           ELSE None
         IN tok' = [tok EXCEPT
              !.di = @ + 1,
              !.auths = auths2,
              !.now = IF Created(outcome) THEN @ + 1 ELSE @,
              !.next_id = IF Created(outcome) THEN @ + 1 ELSE @,
              !.created_tokens =
                  IF token_info # None
                  THEN Append(@, [name |-> token_def.name,
                                  token_info |-> token_info[1]])
                  ELSE @]

\* return created_tokens
HealthEnd ==
    /\ tok.pc = "health_loop"
    /\ TokenFrame
    /\ tok.di > Len(TokenDefinitions)
    /\ tok' = [tok EXCEPT
         !.pc = "returned",
         !.last = Call("create_health_iot", 0, FALSE, tok.created_tokens)]

NextTokens ==
    \/ OpList
    \/ OpGet
    \/ OpCreate
    \/ OpUpdate
    \/ OpDelete
    \/ OpExport
    \/ RotateStart
    \/ RotateGetInfo
    \/ RotateDeactivate
    \/ RotateCreate
    \/ RotateEnd
    \/ HealthStart
    \/ HealthCreate
    \/ HealthEnd

SpecTokens == InitTokens /\ [][NextTokens]_vars

(***************************************************************************)
(* Claims about SecurityTokenManager.                                      *)
(***************************************************************************)
\* C6: rotate_tokens requests the replacement token with the permissions of
\* the token being rotated: the same action, resource type and resource
\* scope (name or id) for each of them, and nothing broader.
C6_SamePermissions ==
    \A k \in 1..Len(tok.requested) :
        tok.requested[k].new = tok.requested[k].old

ExportFields ==
    {"id", "description", "permissions", "created_at", "updated_at",
     "status", "user_name", "user_id", "org_name", "org_id"}

\* C7: the file export_tokens leaves behind, whether written in full or cut
\* short by a failing json.dump, is the same for two servers that differ
\* only in the secret token strings; each record in it contains only the
\* fields id, description, permissions, created_at, updated_at, status,
\* user_name, user_id, org_name and org_id, and a file written in full has
\* exactly these ten fields in every record.
C7_ExportHidesTokens ==
    /\ tok.pc # "idle" => tok.file = tok.file2
    /\ (tok.pc # "idle" /\ tok.file # <<>>) =>
          \A k \in 1..Len(tok.file[1]) :
              /\ DOMAIN tok.file[1][k] \subseteq ExportFields
              /\ ~tok.file_partial => DOMAIN tok.file[1][k] = ExportFields

C7_Witness ==
    /\ tok.pc = "returned"
    /\ tok.last.op = "export"
    /\ tok.last.ret = <<TRUE>>
    /\ ~tok.file_partial
    /\ Len(tok.file[1]) = 2
    /\ \E k \in 1..2 : tok.file[1][k].description = <<"No description">>
    /\ \A k \in 1..2 : Objs[k].token # Objs2[k].token

\* C8: the CRUD wrappers return instead of raising: list_tokens returns the
\* list of the tokens converted before the failure, create_token,
\* get_token_info and update_token return None when an SDK call fails, and
\* delete_token returns True exactly when the SDK delete call did not raise.
C8_WrappersReturn ==
    (tok.pc = "returned" /\ tok.last.op \in
         {"list", "get", "create", "update", "delete"}) =>
      /\ ~tok.last.raised
      /\ tok.last.op = "list" =>
            /\ Len(tok.last.ret) <= Len(tok.auths)
            /\ \A k \in 1..Len(tok.last.ret) :
                  /\ tok.last.ret[k].id = tok.auths[k].id
                  /\ ~Broken(tok.auths[k])
            /\ ~tok.last.sdk_raised => Len(tok.last.ret) = Len(tok.auths)
      /\ (tok.last.op \in {"get", "create", "update"} /\ tok.last.sdk_raised)
            => tok.last.ret = None
      /\ tok.last.op = "delete" =>
            /\ tok.last.ret \in {<<TRUE>>, <<FALSE>>}
            /\ (tok.last.ret = <<TRUE>>) <=> ~tok.last.sdk_raised
            /\ tok.last.ret = <<TRUE>> => ~Known(tok.auths, tok.last.arg)

C8_Witness ==
    /\ tok.pc = "returned"
    /\ tok.last.op = "delete"
    /\ tok.last.sdk_raised
    /\ tok.last.ret = <<FALSE>>
    /\ Known(tok.auths, tok.last.arg)

(***************************************************************************)
(* ResultsCollector.prune_old_outputs                                      *)
(*                                                                         *)
(* File and directory names are sequences of one-character strings.  An    *)
(* entry of the outputs tree is its parent directory below outputs (<<>>   *)
(* for outputs itself), its name and whether it is a regular file.         *)
(* prn.fs0 is the tree when prune_old_outputs is called, prn.fs the tree   *)
(* now, prn.todo the entries rglob("*") has not yielded yet (it yields     *)
(* them in an order the file system chooses), prn.unlink_failed the files  *)
(* whose unlink raised.                                                    *)
(***************************************************************************)
MaxFiles == 3

UpperCase == <<"A", "B", "C", "D", "E", "F", "G", "H", "I", "J", "K", "L", "M", "N", "O", "P", "Q", "R", "S", "T", "U", "V", "W", "X", "Y", "Z">>

LowerCase == <<"a", "b", "c", "d", "e", "f", "g", "h", "i", "j", "k", "l", "m", "n", "o", "p", "q", "r", "s", "t", "u", "v", "w", "x", "y", "z">>

\* str.lower(), one character
LowerChar(c) ==
    IF \E k \in 1..26 : UpperCase[k] = c
    THEN LowerCase[CHOOSE k \in 1..26 : UpperCase[k] = c]
    ELSE c

\* str.lower()
Lower(s) == [k \in 1..Len(s) |-> LowerChar(s[k])]

\* name.rfind(".") as a 1-based position, 0 if there is no dot
LastDot(name) ==
    IF \E k \in 1..Len(name) : name[k] = "."
    THEN CHOOSE k \in 1..Len(name) :
            name[k] = "." /\ \A j \in (k + 1)..Len(name) : name[j] # "."
    ELSE 0

\* PurePath.suffix: from the last dot on, unless the dot starts or ends the name
Suffix(name) ==
    IF 1 < LastDot(name) /\ LastDot(name) < Len(name)
    THEN SubSeq(name, LastDot(name), Len(name))
    ELSE <<>>

\* allowed_exts
AllowedExts ==
    {<<".", "j", "s", "o", "n">>, <<".", "c", "s", "v">>, <<".", "t", "x", "t">>, <<".", "h", "t", "m", "l">>, <<".", "p", "n", "g">>,
     <<".", "m", "d">>, <<".", "j", "p", "g">>, <<".", "j", "p", "e", "g">>, <<".", "l", "o", "g">>, <<".", "d", "b">>}

\* file.suffix.lower() in allowed_exts
SuffixAllowed(name) == Lower(Suffix(name)) \in AllowedExts

\* self.run_id in file.name
NameHasRunId(run_id, name) == Contains(run_id, name)

\* mutant: only the argument is looked at, not the instance flag
IsDryRun_ArgumentOnly(dry_run, self_dry_run) == dry_run

\* if dry_run or self.dry_run
IsDryRun(dry_run, self_dry_run) == dry_run \/ self_dry_run

\* the three nested ifs: the entry is to be deleted
ToDelete(entry, run_id) ==
    /\ entry.is_file
    /\ SuffixAllowed(entry.name)
    /\ ~NameHasRunId(run_id, entry.name)

Entry(dir, name, is_file) == [dir |-> dir, name |-> name, is_file |-> is_file]

RunId == <<"r", "1">>

\* the entries an outputs tree may hold
EntryPool ==
    { Entry(<<>>, <<"r", "1", ".", "j", "s", "o", "n">>, TRUE),
      Entry(<<>>, <<"r", "0", ".", "j", "s", "o", "n">>, TRUE),
      Entry(<<>>, <<"r", "0", ".", "J", "S", "O", "N">>, TRUE),
      Entry(<<>>, <<"r", "0", ".", "b", "i", "n">>, TRUE),
      Entry(<<>>, <<"r", "0">>, TRUE),
      Entry(<<>>, <<".", "j", "s", "o", "n">>, TRUE),
      Entry(<<>>, <<"o", "l", "d", ".", "c", "s", "v">>, FALSE),
      Entry(<<"r", "1">>, <<"R", "1", ".", "L", "o", "g">>, TRUE),
      Entry(<<"r", "1">>, <<"x", "r", "1", ".", "m", "d">>, TRUE),
      Entry(<<"s", "u", "b">>, <<"a", ".", "t", "a", "r", ".", "g", "z">>, TRUE) }

PruneFrame == UNCHANGED <<imp, qry, tok, cmp, fin, scr, gen>>

InitPrune ==
    /\ imp = Idle /\ qry = Idle /\ tok = Idle /\ cmp = Idle
    /\ fin = Idle /\ scr = Idle /\ gen = Idle
    /\ \E files \in SUBSET EntryPool, dry_run \in BOOLEAN,
          self_dry_run \in BOOLEAN :
         /\ Cardinality(files) <= MaxFiles
         /\ prn = [pc            |-> "rglob",
                   run_id        |-> RunId,
                   dry_run       |-> dry_run,
                   self_dry_run  |-> self_dry_run,
                   fs0           |-> files,
                   fs            |-> files,
                   todo          |-> files,
                   deleted       |-> <<>>,
                   unlink_failed |-> {}]

\* the entry is a directory, has another suffix or carries the run id
PruneSkip ==
    /\ prn.pc = "rglob"
    /\ PruneFrame
    /\ \E entry \in prn.todo :
         /\ ~ToDelete(entry, prn.run_id)
         /\ prn' = [prn EXCEPT !.todo = @ \ {entry}]

\* dry run: the file is listed, not removed
PruneWouldDelete ==
    /\ prn.pc = "rglob"
    /\ PruneFrame
    /\ \E entry \in prn.todo :
         /\ ToDelete(entry, prn.run_id)
         /\ IsDryRun(prn.dry_run, prn.self_dry_run)
         /\ prn' = [prn EXCEPT
              !.todo = @ \ {entry},
              !.deleted = Append(@, entry)]

\* file.unlink() succeeded
PruneUnlink ==
    /\ prn.pc = "rglob"
    /\ PruneFrame
    /\ \E entry \in prn.todo :
         /\ ToDelete(entry, prn.run_id)
         /\ ~IsDryRun(prn.dry_run, prn.self_dry_run)
         /\ prn' = [prn EXCEPT
              !.todo = @ \ {entry},
              !.fs = @ \ {entry},
              !.deleted = Append(@, entry)]

\* file.unlink() raised: the error is printed, the file stays
PruneUnlinkError ==
    /\ prn.pc = "rglob"
    /\ PruneFrame
    /\ \E entry \in prn.todo :
         /\ ToDelete(entry, prn.run_id)
         /\ ~IsDryRun(prn.dry_run, prn.self_dry_run)
         /\ prn' = [prn EXCEPT
              !.todo = @ \ {entry},
              !.unlink_failed = @ \cup {entry}]

\* return deleted
PruneReturn ==
    /\ prn.pc = "rglob"
    /\ PruneFrame
    /\ prn.todo = {}
    /\ prn' = [prn EXCEPT !.pc = "returned"]

NextPrune ==
    \/ PruneSkip
    \/ PruneWouldDelete
    \/ PruneUnlink
    \/ PruneUnlinkError
    \/ PruneReturn

SpecPrune == InitPrune /\ [][NextPrune]_vars

(***************************************************************************)
(* Claims about prune_old_outputs.                                         *)
(***************************************************************************)
Range(seq) == {seq[k] : k \in 1..Len(seq)}

NoRepeats(seq) == Cardinality(Range(seq)) = Len(seq)

PruneDry == prn.dry_run \/ prn.self_dry_run

\* the files the claim names: regular files whose suffix is in the list as
\* it stands and whose name does not contain the run id
ListedSuffix ==
    {e \in prn.fs0 :
        e.is_file /\ Suffix(e.name) \in AllowedExts
                  /\ ~Contains(prn.run_id, e.name)}

\* the same with the suffix compared in lower case
ListedLowerSuffix ==
    {e \in prn.fs0 :
        e.is_file /\ Lower(Suffix(e.name)) \in AllowedExts
                  /\ ~Contains(prn.run_id, e.name)}

\* C9 as claimed: a real run removes exactly the files whose suffix is in the
\* allowed list and whose name lacks run_id; a dry run removes nothing and
\* returns the files a real run would delete.
C9_PruneExactly ==
    prn.pc = "returned" =>
      /\ Range(prn.deleted) = ListedSuffix
      /\ prn.fs = IF PruneDry THEN prn.fs0 ELSE prn.fs0 \ ListedSuffix

\* C9 (amended): a real run unlinks exactly the files whose lower-cased suffix
\* is in the allowed list and whose name lacks run_id; such a file goes and is
\* listed unless its unlink raises, then it stays and is not listed; no other
\* entry is ever removed; a dry run removes nothing and lists every such file.
C9_PruneLowerSuffix ==
    /\ prn.pc # "idle" =>
         /\ prn.fs \subseteq prn.fs0
         /\ (prn.fs0 \ prn.fs) \subseteq ListedLowerSuffix
         /\ PruneDry => prn.fs = prn.fs0
         /\ NoRepeats(prn.deleted)
    /\ prn.pc = "returned" =>
         /\ PruneDry => Range(prn.deleted) = ListedLowerSuffix
         /\ ~PruneDry =>
              /\ Range(prn.deleted) = prn.fs0 \ prn.fs
              /\ Range(prn.deleted) = ListedLowerSuffix \ prn.unlink_failed
              /\ prn.unlink_failed \subseteq prn.fs

C9_Witness ==
    /\ prn.pc = "returned"
    /\ ~prn.dry_run /\ ~prn.self_dry_run
    /\ Entry(<<>>, <<"r", "0", ".", "J", "S", "O", "N">>, TRUE) \notin prn.fs
    /\ Entry(<<>>, <<"r", "0", ".", "j", "s", "o", "n">>, TRUE) \in prn.unlink_failed
    /\ Entry(<<>>, <<"r", "1", ".", "j", "s", "o", "n">>, TRUE) \in prn.fs

(***************************************************************************)
(* SecurityAnalyzer._assess_compliance                                     *)
(*                                                                         *)
(* Requirement strings, feature names and descriptions are sequences of    *)
(* one-character strings, so that lower() and the in operator are computed *)
(* character by character.  cmp.fw and cmp.ri are the positions of the two *)
(* loops, cmp.compliance_scores the results in dictionary order.           *)
(***************************************************************************)
\* self.security_frameworks, in insertion order
SecurityFrameworks ==
    << [key |-> "hipaa", name |-> "HIPAA",
        requirements |->
        <<<<"a", "c", "c", "e", "s", "s", "_", "c", "o", "n", "t", "r", "o", "l", "s">>,
          <<"a", "u", "d", "i", "t", "_", "t", "r", "a", "i", "l", "s">>,
          <<"d", "a", "t", "a", "_", "e", "n", "c", "r", "y", "p", "t", "i", "o", "n">>,
          <<"a", "u", "t", "h", "e", "n", "t", "i", "c", "a", "t", "i", "o", "n">>,
          <<"a", "u", "t", "h", "o", "r", "i", "z", "a", "t", "i", "o", "n">>>>],
       [key |-> "gdpr", name |-> "GDPR",
        requirements |->
        <<<<"d", "a", "t", "a", "_", "p", "r", "o", "t", "e", "c", "t", "i", "o", "n">>,
          <<"c", "o", "n", "s", "e", "n", "t", "_", "m", "a", "n", "a", "g", "e", "m", "e", "n", "t">>,
          <<"r", "i", "g", "h", "t", "_", "t", "o", "_", "e", "r", "a", "s", "u", "r", "e">>,
          <<"d", "a", "t", "a", "_", "p", "o", "r", "t", "a", "b", "i", "l", "i", "t", "y">>,
          <<"p", "r", "i", "v", "a", "c", "y", "_", "b", "y", "_", "d", "e", "s", "i", "g", "n">>>>],
       [key |-> "iso_27001", name |-> "ISO 27001",
        requirements |->
        <<<<"r", "i", "s", "k", "_", "a", "s", "s", "e", "s", "s", "m", "e", "n", "t">>,
          <<"s", "e", "c", "u", "r", "i", "t", "y", "_", "p", "o", "l", "i", "c", "i", "e", "s">>,
          <<"a", "c", "c", "e", "s", "s", "_", "c", "o", "n", "t", "r", "o", "l">>,
          <<"c", "r", "y", "p", "t", "o", "g", "r", "a", "p", "h", "y">>,
          <<"p", "h", "y", "s", "i", "c", "a", "l", "_", "s", "e", "c", "u", "r", "i", "t", "y">>>>] >>

\* pg_features: the feature and description texts
PgFeatures ==
    <<[feature |->
         <<"R", "o", "w", " ", "L", "e", "v", "e", "l", " ", "S", "e", "c", "u",
           "r", "i", "t", "y", " ", "(", "R", "L", "S", ")">>,
       description |->
         <<"F", "i", "n", "e", "-", "g", "r", "a", "i", "n", "e", "d", " ", "a",
           "c", "c", "e", "s", "s", " ", "c", "o", "n", "t", "r", "o", "l", " ",
           "a", "t", " ", "r", "o", "w", " ", "l", "e", "v", "e", "l">>],
      [feature |->
         <<"S", "S", "L", "/", "T", "L", "S", " ", "E", "n", "c", "r", "y", "p",
           "t", "i", "o", "n">>,
       description |->
         <<"E", "n", "c", "r", "y", "p", "t", "e", "d", " ", "c", "o", "n", "n",
           "e", "c", "t", "i", "o", "n", "s">>],
      [feature |->
         <<"C", "o", "l", "u", "m", "n", " ", "E", "n", "c", "r", "y", "p", "t",
           "i", "o", "n">>,
       description |->
         <<"C", "o", "l", "u", "m", "n", "-", "l", "e", "v", "e", "l", " ", "e",
           "n", "c", "r", "y", "p", "t", "i", "o", "n", " ", "s", "u", "p", "p",
           "o", "r", "t">>],
      [feature |->
         <<"A", "u", "d", "i", "t", " ", "L", "o", "g", "g", "i", "n", "g">>,
       description |->
         <<"C", "o", "m", "p", "r", "e", "h", "e", "n", "s", "i", "v", "e", " ",
           "a", "u", "d", "i", "t", " ", "t", "r", "a", "i", "l">>],
      [feature |->
         <<"R", "o", "l", "e", "-", "B", "a", "s", "e", "d", " ", "A", "c", "c",
           "e", "s", "s", " ", "C", "o", "n", "t", "r", "o", "l">>,
       description |->
         <<"G", "r", "a", "n", "u", "l", "a", "r", " ", "p", "e", "r", "m", "i",
           "s", "s", "i", "o", "n", "s", " ", "s", "y", "s", "t", "e", "m">>]>>

\* influx_features: the feature and description texts
InfluxFeatures ==
    <<[feature |->
         <<"T", "o", "k", "e", "n", "-", "B", "a", "s", "e", "d", " ", "A", "u",
           "t", "h", "e", "n", "t", "i", "c", "a", "t", "i", "o", "n">>,
       description |->
         <<"A", "P", "I", " ", "t", "o", "k", "e", "n", "s", " ", "f", "o", "r",
           " ", "a", "u", "t", "h", "e", "n", "t", "i", "c", "a", "t", "i", "o",
           "n">>],
      [feature |->
         <<"T", "L", "S", "/", "S", "S", "L", " ", "E", "n", "c", "r", "y", "p",
           "t", "i", "o", "n">>,
       description |->
         <<"E", "n", "c", "r", "y", "p", "t", "e", "d", " ", "c", "o", "m", "m",
           "u", "n", "i", "c", "a", "t", "i", "o", "n", "s">>],
      [feature |->
         <<"U", "s", "e", "r", " ", "M", "a", "n", "a", "g", "e", "m", "e", "n",
           "t">>,
       description |->
         <<"B", "a", "s", "i", "c", " ", "u", "s", "e", "r", " ", "a", "n", "d",
           " ", "p", "e", "r", "m", "i", "s", "s", "i", "o", "n", " ", "s", "y",
           "s", "t", "e", "m">>],
      [feature |->
         <<"A", "u", "d", "i", "t", " ", "L", "o", "g", "s">>,
       description |->
         <<"L", "i", "m", "i", "t", "e", "d", " ", "i", "n", " ", "o", "p", "e",
           "n", " ", "s", "o", "u", "r", "c", "e", " ", "v", "e", "r", "s", "i",
           "o", "n">>],
      [feature |->
         <<"D", "a", "t", "a", " ", "R", "e", "t", "e", "n", "t", "i", "o", "n",
           " ", "P", "o", "l", "i", "c", "i", "e", "s">>,
       description |->
         <<"A", "u", "t", "o", "m", "a", "t", "i", "c", " ", "d", "a", "t", "a",
           " ", "e", "x", "p", "i", "r", "a", "t", "i", "o", "n">>]>>

\* mongo_features: the feature and description texts
MongoFeatures ==
    <<[feature |->
         <<"R", "o", "l", "e", "-", "B", "a", "s", "e", "d", " ", "A", "c", "c",
           "e", "s", "s", " ", "C", "o", "n", "t", "r", "o", "l">>,
       description |->
         <<"F", "i", "n", "e", "-", "g", "r", "a", "i", "n", "e", "d", " ", "r",
           "o", "l", "e", " ", "p", "e", "r", "m", "i", "s", "s", "i", "o", "n",
           "s">>],
      [feature |->
         <<"F", "i", "e", "l", "d", "-", "L", "e", "v", "e", "l", " ", "E", "n",
           "c", "r", "y", "p", "t", "i", "o", "n">>,
       description |->
         <<"C", "l", "i", "e", "n", "t", "-", "s", "i", "d", "e", " ", "f", "i",
           "e", "l", "d", " ", "e", "n", "c", "r", "y", "p", "t", "i", "o", "n">>],
      [feature |->
         <<"A", "u", "d", "i", "t", " ", "L", "o", "g", "g", "i", "n", "g">>,
       description |->
         <<"C", "o", "m", "p", "r", "e", "h", "e", "n", "s", "i", "v", "e", " ",
           "a", "u", "d", "i", "t", " ", "t", "r", "a", "i", "l">>],
      [feature |->
         <<"T", "L", "S", "/", "S", "S", "L", " ", "E", "n", "c", "r", "y", "p",
           "t", "i", "o", "n">>,
       description |->
         <<"E", "n", "c", "r", "y", "p", "t", "e", "d", " ", "c", "o", "n", "n",
           "e", "c", "t", "i", "o", "n", "s">>],
      [feature |->
         <<"L", "D", "A", "P", " ", "I", "n", "t", "e", "g", "r", "a", "t", "i",
           "o", "n">>,
       description |->
         <<"E", "n", "t", "e", "r", "p", "r", "i", "s", "e", " ", "d", "i", "r",
           "e", "c", "t", "o", "r", "y", " ", "i", "n", "t", "e", "g", "r", "a",
           "t", "i", "o", "n">>]>>

\* a feature list of another caller, written in the requirements' own words
OtherFeatures ==
    <<[feature |->
         <<"A", "C", "C", "E", "S", "S", "_", "C", "O", "N", "T", "R", "O", "L",
           "S">>,
       description |->
         <<"a", "u", "d", "i", "t", "_", "t", "r", "a", "i", "l", "s", " ", "a",
           "n", "d", " ", "d", "a", "t", "a", "_", "e", "n", "c", "r", "y", "p",
           "t", "i", "o", "n">>],
      [feature |->
         <<"A", "u", "t", "h", "o", "r", "i", "z", "a", "t", "i", "o", "n">>,
       description |->
         <<"C", "r", "y", "p", "t", "o", "g", "r", "a", "p", "h", "y">>],
      [feature |->
         <<"A", "u", "t", "h", "e", "n", "t", "i", "c", "a", "t", "i", "o",
           "n">>,
       description |->
         <<"r", "i", "s", "k", "_", "a", "s", "s", "e", "s", "s", "m", "e", "n",
           "t">>],
      [feature |->
         <<"P", "r", "i", "v", "a", "c", "y">>,
       description |->
         <<"d", "a", "t", "a", "_", "p", "r", "o", "t", "e", "c", "t", "i", "o",
           "n", " ", "c", "o", "n", "s", "e", "n", "t", "_", "m", "a", "n", "a",
           "g", "e", "m", "e", "n", "t", " ", "r", "i", "g", "h", "t", "_", "t",
           "o", "_", "e", "r", "a", "s", "u", "r", "e", " ", "d", "a", "t", "a",
           "_", "p", "o", "r", "t", "a", "b", "i", "l", "i", "t", "y", " ", "p",
           "r", "i", "v", "a", "c", "y", "_", "b", "y", "_", "d", "e", "s", "i",
           "g", "n">>]>>

\* the list with the elements at the positions in S, in order
RECURSIVE Pick(_, _, _)
Pick(seq, S, k) ==
    IF k > Len(seq)
    THEN <<>>
    ELSE (IF k \in S THEN <<seq[k]>> ELSE <<>>) \o Pick(seq, S, k + 1)

\* the (features, database) arguments _assess_compliance is called with
ComplianceInputs ==
    {[database |-> "PostgreSQL", features |-> Pick(PgFeatures, S, 1)] :
        S \in SUBSET (1..Len(PgFeatures))}
    \cup
    {[database |-> "InfluxDB", features |-> Pick(InfluxFeatures, S, 1)] :
        S \in SUBSET (1..Len(InfluxFeatures))}
    \cup
    {[database |-> "MongoDB", features |-> Pick(MongoFeatures, S, 1)] :
        S \in SUBSET (1..Len(MongoFeatures))}
    \cup
    {[database |-> "Other", features |-> Pick(OtherFeatures, S, 1)] :
        S \in SUBSET (1..Len(OtherFeatures))}

\* mutant: the requirement is compared with its underscores read as blanks
Supports_Blanks(feature, req) ==
    LET words == [k \in 1..Len(req) |-> IF req[k] = "_" THEN " " ELSE req[k]]
    IN  \/ Contains(words, Lower(feature.description))
        \/ Contains(words, Lower(feature.feature))

\* req in feature.get("description", "").lower()
\*   or req in feature.get("feature", "").lower()
Supports(feature, req) ==
    \/ Contains(req, Lower(feature.description))
    \/ Contains(req, Lower(feature.feature))

\* any(... for feature in features)
FeatureSupport(features, req) ==
    \E k \in 1..Len(features) : Supports(features[k], req)

\* [f["feature"] for f in features if ...]
RECURSIVE SupportingFeatures(_, _)
SupportingFeatures(features, req) ==
    IF features = <<>>
    THEN <<>>
    ELSE (IF Supports(Head(features), req)
          THEN <<Head(features).feature>>
          ELSE <<>>) \o SupportingFeatures(Tail(features), req)

\* (score / max_score) * 100 if max_score > 0 else 0; every framework has
\* five requirements, which makes the quotient a whole number
ComplianceScore(score, max_score) ==
    IF max_score > 0 THEN (score * 100) \div max_score ELSE 0

\* _get_compliance_status
GetComplianceStatus(score) ==
    IF score >= 90 THEN "Fully Compliant"
    ELSE IF score >= 70 THEN "Mostly Compliant"
    ELSE IF score >= 50 THEN "Partially Compliant"
    ELSE "Non-Compliant"

ComplianceFrame == UNCHANGED <<imp, qry, tok, prn, fin, scr, gen>>

InitCompliance ==
    /\ imp = Idle /\ qry = Idle /\ tok = Idle /\ prn = Idle
    /\ fin = Idle /\ scr = Idle /\ gen = Idle
    /\ \E in \in ComplianceInputs :
         cmp = [pc                 |-> "framework",
                database           |-> in.database,
                features           |-> in.features,
                fw                 |-> 1,
                ri                 |-> 1,
                score              |-> 0,
                max_score          |-> 0,
                compliance_details |-> <<>>,
                compliance_scores  |-> <<>>]

\* for framework_key, framework in self.security_frameworks.items()
AssessFramework ==
    /\ cmp.pc = "framework"
    /\ ComplianceFrame
    /\ cmp.fw <= Len(SecurityFrameworks)
    /\ cmp' = [cmp EXCEPT
         !.pc = "requirement",
         !.ri = 1,
         !.score = 0,
         !.max_score = Len(SecurityFrameworks[cmp.fw].requirements),
         !.compliance_details = <<>>]

\* for req in requirements: a feature supports it
AssessCompliant ==
    /\ cmp.pc = "requirement"
    /\ ComplianceFrame
    /\ cmp.ri <= Len(SecurityFrameworks[cmp.fw].requirements)
    /\ LET req == SecurityFrameworks[cmp.fw].requirements[cmp.ri]
       IN  /\ FeatureSupport(cmp.features, req)
           /\ cmp' = [cmp EXCEPT
                !.ri = @ + 1,
                !.score = @ + 1,
                !.compliance_details = Append(@,
                    [requirement |-> req,
                     status      |-> "Compliant",
                     features    |-> SupportingFeatures(cmp.features, req)])]

\* for req in requirements: no feature supports it
AssessNonCompliant ==
    /\ cmp.pc = "requirement"
    /\ ComplianceFrame
    /\ cmp.ri <= Len(SecurityFrameworks[cmp.fw].requirements)
    /\ LET req == SecurityFrameworks[cmp.fw].requirements[cmp.ri]
       IN  /\ ~FeatureSupport(cmp.features, req)
           /\ cmp' = [cmp EXCEPT
                !.ri = @ + 1,
                !.compliance_details = Append(@,
                    [requirement |-> req,
                     status      |-> "Non-Compliant",
                     notes       |-> <<"No native", cmp.database,
                                       "feature found">>])]

\* compliance_scores[framework_key] = {...}
AssessScore ==
    /\ cmp.pc = "requirement"
    /\ ComplianceFrame
    /\ cmp.ri > Len(SecurityFrameworks[cmp.fw].requirements)
    /\ LET compliance_score == ComplianceScore(cmp.score, cmp.max_score)
       IN  cmp' = [cmp EXCEPT
             !.pc = "framework",
             !.fw = @ + 1,
             !.compliance_scores = Append(@,
                 [key       |-> SecurityFrameworks[cmp.fw].key,
                  framework |-> SecurityFrameworks[cmp.fw].name,
                  score     |-> compliance_score,
                  status    |-> GetComplianceStatus(compliance_score),
                  details   |-> cmp.compliance_details])]

\* return compliance_scores
AssessReturn ==
    /\ cmp.pc = "framework"
    /\ ComplianceFrame
    /\ cmp.fw > Len(SecurityFrameworks)
    /\ cmp' = [cmp EXCEPT !.pc = "returned"]

NextCompliance ==
    \/ AssessFramework
    \/ AssessCompliant
    \/ AssessNonCompliant
    \/ AssessScore
    \/ AssessReturn

SpecCompliance == InitCompliance /\ [][NextCompliance]_vars

(***************************************************************************)
(* Claims about _assess_compliance.                                        *)
(***************************************************************************)
\* the requirement occurs verbatim in the lower-cased name or description of
\* at least one feature of the list
Occurs(req) ==
    \E k \in 1..Len(cmp.features) :
        \/ Contains(req, Lower(cmp.features[k].feature))
        \/ Contains(req, Lower(cmp.features[k].description))

\* C10: a framework's score is 100 * (requirements occurring verbatim in some
\* lower-cased feature name or description) / (requirements); details holds
\* each requirement once, in order, Compliant exactly when it occurs; the
\* built-in PostgreSQL list scores 0 and "Non-Compliant" on all three
\* frameworks.
C10_SubstringScoring ==
    /\ cmp.pc # "idle" =>
         \A n \in 1..Len(cmp.compliance_scores) :
            LET r    == cmp.compliance_scores[n]
                reqs == SecurityFrameworks[n].requirements
            IN  /\ r.key = SecurityFrameworks[n].key
                /\ r.score * Len(reqs) =
                     100 * Cardinality({k \in 1..Len(reqs) : Occurs(reqs[k])})
                /\ Len(r.details) = Len(reqs)
                /\ \A k \in 1..Len(reqs) :
                     /\ r.details[k].requirement = reqs[k]
                     /\ r.details[k].status =
                          IF Occurs(reqs[k]) THEN "Compliant"
                                             ELSE "Non-Compliant"
                /\ cmp.features = PgFeatures =>
                     r.score = 0 /\ r.status = "Non-Compliant"
    /\ cmp.pc = "returned" =>
         Len(cmp.compliance_scores) = Len(SecurityFrameworks)

C10_Witness ==
    /\ cmp.pc = "returned"
    /\ cmp.database = "PostgreSQL"
    /\ cmp.features = PgFeatures
    /\ [n \in 1..3 |-> cmp.compliance_scores[n].key] =
         <<"hipaa", "gdpr", "iso_27001">>
    /\ \A n \in 1..3 :
         /\ cmp.compliance_scores[n].score = 0
         /\ cmp.compliance_scores[n].status = "Non-Compliant"
         /\ Len(cmp.compliance_scores[n].details) = 5

(***************************************************************************)
(* Numbers of the scoring code.                                            *)
(*                                                                         *)
(* The scores are Python floats.  They are modelled as exact fractions in  *)
(* lowest terms, Frac(n, d) being n/d, and round(x, 2) as rounding to the  *)
(* nearest hundredth, ties to even.                                        *)
(***************************************************************************)
Abs(n) == IF n < 0 THEN -n ELSE n

RECURSIVE GCD(_, _)
GCD(a, b) == IF b = 0 THEN a ELSE GCD(b, a % b)

Frac(n, d) ==
    LET g == GCD(Abs(n), Abs(d))
        sgn == IF d < 0 THEN -1 ELSE 1
    IN  [num |-> sgn * (n \div g), den |-> sgn * (d \div g)]

Whole(n) == Frac(n, 1)

FAdd(x, y) == Frac(x.num * y.den + y.num * x.den, x.den * y.den)

FSub(x, y) == Frac(x.num * y.den - y.num * x.den, x.den * y.den)

FMul(x, y) == Frac(x.num * y.num, x.den * y.den)

FDiv(x, y) == Frac(x.num * y.den, x.den * y.num)

FLe(x, y) == x.num * y.den <= y.num * x.den

FLt(x, y) == x.num * y.den < y.num * x.den

\* max() of a non-empty list of numbers
RECURSIVE FMax(_)
FMax(xs) ==
    IF Len(xs) = 1 THEN xs[1]
    ELSE LET rest == FMax(Tail(xs))
         IN  IF FLe(rest, xs[1]) THEN xs[1] ELSE rest

\* sum() of a list of numbers
RECURSIVE FSum(_)
FSum(xs) == IF xs = <<>> THEN Whole(0) ELSE FAdd(xs[1], FSum(Tail(xs)))

\* np.mean of a non-empty list
FMean(xs) == FDiv(FSum(xs), Whole(Len(xs)))

\* round(x, 2) of the number x itself: to the nearest hundredth, a number
\* halfway between two hundredths to the even one
Round2(x) ==
    LET n == x.num * 100
        q == n \div x.den
        r == n % x.den
        h == IF 2 * r < x.den THEN q
             ELSE IF 2 * r > x.den THEN q + 1
             ELSE q + (q % 2)
    IN  Frac(h, 100)

\* round(x, 2) and Series.round(2) of the float the program holds for x.
\* The numbers of the model are exact; the program's floats are the nearest
\* binary fractions of them, so where x lies halfway between two hundredths
\* the float lies on either side of it and both hundredths are outcomes
\* (the float of 0.005 rounds to 0.01, the float of 0.015 to 0.01).
Round2Outcomes(x) ==
    LET n == x.num * 100
        q == n \div x.den
        r == n % x.den
    IN  IF 2 * r = x.den THEN {Frac(q, 100), Frac(q + 1, 100)}
        ELSE {Round2(x)}

\* the lists that take their k-th element from the k-th set
Picks(sets) ==
    {f \in [1..Len(sets) -> UNION {sets[k] : k \in 1..Len(sets)}] :
        \A k \in 1..Len(sets) : f[k] \in sets[k]}

(***************************************************************************)
(* FinalTablesGenerator                                                    *)
(*                                                                         *)
(* fin.results is what _load_results found: for each database whether its *)
(* result file was loaded, whether the loaded dictionary is non-empty and  *)
(* the entries the extractors read; a file that is missing or fails to     *)
(* load leaves no key.  fin.tables holds the generated tables, <<>> for a  *)
(* table that was not made and <<rows>> for one that was.  Database names  *)
(* are sequences of one-character strings, so that capitalize() and the    *)
(* comparison of names are computed.  A table cell that may hold a string  *)
(* is a record: text is "" for a number, and num is the number.            *)
(***************************************************************************)
UpperChar(c) ==
    IF \E k \in 1..26 : LowerCase[k] = c
    THEN UpperCase[CHOOSE k \in 1..26 : LowerCase[k] = c]
    ELSE c

\* str.capitalize()
Capitalize(s) ==
    IF s = <<>> THEN <<>> ELSE <<UpperChar(s[1])>> \o Lower(Tail(s))

N_postgresql == <<"p", "o", "s", "t", "g", "r", "e", "s", "q", "l">>

N_influxdb == <<"i", "n", "f", "l", "u", "x", "d", "b">>

N_mongodb == <<"m", "o", "n", "g", "o", "d", "b">>

N_PostgreSQL == <<"P", "o", "s", "t", "g", "r", "e", "S", "Q", "L">>

N_InfluxDB == <<"I", "n", "f", "l", "u", "x", "D", "B">>

N_MongoDB == <<"M", "o", "n", "g", "o", "D", "B">>

Num(x) == [text |-> "", num |-> x]

Text(t) == [text |-> t, num |-> Whole(0)]

IsText(cell) == cell.text # ""

\* a per-database result file: not loaded, loaded as an empty dictionary,
\* or loaded with some of the entries the extractors read
NoFile ==
    [present |-> FALSE, truthy |-> FALSE, avg_insert_rate |-> <<>>,
     execution_time_ms |-> <<>>, data_size |-> <<>>, index_size |-> <<>>]

EmptyFile == [NoFile EXCEPT !.present = TRUE]

FileWith(avg_insert_rate, execution_time_ms, data_size, index_size) ==
    [present |-> TRUE, truthy |-> TRUE, avg_insert_rate |-> avg_insert_rate,
     execution_time_ms |-> execution_time_ms,
     data_size |-> data_size, index_size |-> index_size]

PostgresqlFiles ==
    { NoFile, EmptyFile,
      FileWith(<<1500>>, <<10, 20>>, <<40>>, <<10>>),
      FileWith(<<>>, <<>>, <<8>>, <<>>) }

InfluxdbFiles == { NoFile, EmptyFile, FileWith(<<>>, <<>>, <<25>>, <<>>) }

MongodbFiles == { NoFile, EmptyFile, FileWith(<<>>, <<>>, <<30>>, <<5>>) }

\* the security analysis file: database_assessments in insertion order with
\* the overall_score of compliance_scores (<<>> when that entry is missing)
SecurityFiles ==
    { [present |-> FALSE, database_assessments |-> <<>>],
      [present |-> TRUE, database_assessments |-> <<>>],
      [present |-> TRUE, database_assessments |->
         << [db |-> N_postgresql, overall_score |-> <<75>>],
            [db |-> N_influxdb, overall_score |-> <<60>>],
            [db |-> N_mongodb, overall_score |-> <<>>] >>] }

\* dict.get(key, default) on an entry that is <<>> when missing
GetOr(entry, default) == IF entry = <<>> THEN default ELSE entry[1]

PerformanceMetrics ==
    <<"Ingestion_Rate", "Query_Latency_Avg", "Query_Latency_P95",
      "Storage_Efficiency", "Index_Improvement", "Security_Overhead">>

\* higher_better
HigherBetter == {"Ingestion_Rate", "Storage_Efficiency", "Index_Improvement"}

\* lower_better
LowerBetter == {"Query_Latency_Avg", "Query_Latency_P95", "Security_Overhead"}

MetricNames == HigherBetter \cup LowerBetter

\* weights of _normalize_performance_scores, by metric
PerformanceWeights ==
    [col \in MetricNames |->
        CASE col = "Ingestion_Rate" -> Frac(25, 100)
          [] col = "Query_Latency_Avg" -> Frac(20, 100)
          [] col = "Query_Latency_P95" -> Frac(15, 100)
          [] col = "Storage_Efficiency" -> Frac(20, 100)
          [] col = "Index_Improvement" -> Frac(15, 100)
          [] col = "Security_Overhead" -> Frac(5, 100)]

ZeroMetrics == [col \in MetricNames |-> Whole(0)]

\* _extract_postgresql_performance
ExtractPostgresqlPerformance(pg_data) ==
    [ZeroMetrics EXCEPT
       !["Ingestion_Rate"] = Whole(GetOr(pg_data.avg_insert_rate, 0)),
       !["Query_Latency_Avg"] =
           IF Len(pg_data.execution_time_ms) > 0
           THEN FMean([k \in 1..Len(pg_data.execution_time_ms) |->
                          Whole(pg_data.execution_time_ms[k])])
           ELSE Whole(0)]

\* _extract_influxdb_performance
ExtractInfluxdbPerformance == ZeroMetrics

\* _extract_mongodb_performance
ExtractMongodbPerformance == ZeroMetrics

\* performance_data of generate_performance_summary_table
PerformanceData(results) ==
    (IF results.postgresql.present /\ results.postgresql.truthy
     THEN <<[Database |-> N_PostgreSQL,
             metrics |-> ExtractPostgresqlPerformance(results.postgresql)]>>
     ELSE <<>>)
    \o
    (IF results.influxdb.present /\ results.influxdb.truthy
     THEN <<[Database |-> N_InfluxDB, metrics |-> ExtractInfluxdbPerformance]>>
     ELSE <<>>)
    \o
    (IF results.mongodb.present /\ results.mongodb.truthy
     THEN <<[Database |-> N_MongoDB, metrics |-> ExtractMongodbPerformance]>>
     ELSE <<>>)

\* df[col].max()
ColumnMax(rows, col) == FMax([k \in 1..Len(rows) |-> rows[k].metrics[col]])

\* mutant: a lower-is-better column without a positive value scores 0
MetricScore_ZeroDefault(rows, col, value) ==
    LET max_val == ColumnMax(rows, col)
    IN  IF col \in HigherBetter
        THEN IF FLt(Whole(0), max_val)
             THEN FMul(FDiv(value, max_val), Whole(100))
             ELSE Whole(0)
        ELSE IF FLt(Whole(0), max_val)
             THEN FMul(FSub(Whole(1), FDiv(value, max_val)), Whole(100))
             ELSE Whole(0)

\* df[f"{col}_Score"] for one row
MetricScore(rows, col, value) ==
    LET max_val == ColumnMax(rows, col)
    IN  IF col \in HigherBetter
        THEN IF FLt(Whole(0), max_val)
             THEN FMul(FDiv(value, max_val), Whole(100))
             ELSE Whole(0)
        ELSE IF FLt(Whole(0), max_val)
             THEN FMul(FSub(Whole(1), FDiv(value, max_val)), Whole(100))
             ELSE Whole(100)

\* df["Performance_Score"] += df[col] * weight, over the weights
WeightedPerformance(scores) ==
    FSum([k \in 1..Len(PerformanceMetrics) |->
            FMul(scores[PerformanceMetrics[k]],
                 PerformanceWeights[PerformanceMetrics[k]])])

\* _normalize_performance_scores: the frames it can return, one for every
\* way the rounding of the rows can come out
NormalizePerformanceScores(rows) ==
    LET scores(k) == [col \in MetricNames |->
                         MetricScore(rows, col, rows[k].metrics[col])]
        rounded == Picks([k \in 1..Len(rows) |->
                            Round2Outcomes(WeightedPerformance(scores(k)))])
    IN  {[k \in 1..Len(rows) |->
            [Database          |-> rows[k].Database,
             metrics           |-> rows[k].metrics,
             scores            |-> scores(k),
             Performance_Score |-> Num(performance_score[k])]] :
         performance_score \in rounded}

\* the placeholder table of generate_performance_summary_table
PlaceholderTable ==
    << [Database |-> N_PostgreSQL, Performance_Score |-> Text("N/A")],
       [Database |-> N_InfluxDB, Performance_Score |-> Text("N/A")],
       [Database |-> N_MongoDB, Performance_Score |-> Text("N/A")] >>

\* generate_performance_summary_table: the tables it can store
PerformanceSummaryTable(results) ==
    IF PerformanceData(results) = <<>>
    THEN {PlaceholderTable}
    ELSE NormalizePerformanceScores(PerformanceData(results))

\* generate_security_comparison_table: the rows
SecurityComparisonTable(security) ==
    [k \in 1..Len(security.database_assessments) |->
        [Database |-> Capitalize(security.database_assessments[k].db),
         Overall_Security_Score |->
            Whole(GetOr(security.database_assessments[k].overall_score, 0))]]

\* _extract_storage_metrics, then Total_Size_MB = Data_Size_MB + Index_Size_MB
StorageRow(db, db_data) ==
    LET Data_Size_MB  == GetOr(db_data.data_size, 0)
        Index_Size_MB == IF db = N_influxdb THEN 0
                         ELSE GetOr(db_data.index_size, 0)
    IN  [Database      |-> Capitalize(db),
         Data_Size_MB  |-> Whole(Data_Size_MB),
         Index_Size_MB |-> Whole(Index_Size_MB),
         Total_Size_MB |-> Whole(Data_Size_MB + Index_Size_MB)]

\* storage_data of generate_storage_efficiency_table
StorageData(results) ==
    (IF results.postgresql.present
     THEN <<StorageRow(N_postgresql, results.postgresql)>> ELSE <<>>)
    \o
    (IF results.influxdb.present
     THEN <<StorageRow(N_influxdb, results.influxdb)>> ELSE <<>>)
    \o
    (IF results.mongodb.present
     THEN <<StorageRow(N_mongodb, results.mongodb)>> ELSE <<>>)

\* df[df["Database"] == db]
RowsOf(rows, db) == SelectSeq(rows, LAMBDA row : row.Database = db)

\* cost_assumptions
CostAssumptions ==
    << [db_name |-> N_PostgreSQL, hourly_cost |-> Frac(171, 1000),
        storage_cost_per_gb |-> Frac(115, 1000),
        io_cost_per_million |-> Frac(20, 100)],
       [db_name |-> N_InfluxDB, hourly_cost |-> Frac(181, 1000),
        storage_cost_per_gb |-> Frac(125, 1000),
        io_cost_per_million |-> Frac(25, 100)],
       [db_name |-> N_MongoDB, hourly_cost |-> Frac(191, 1000),
        storage_cost_per_gb |-> Frac(135, 1000),
        io_cost_per_million |-> Frac(22, 100)] >>

\* one row of generate_cost_analysis_table, total_monthly_cost not rounded
CostRow(costs, tables) ==
    LET db_row == IF tables.storage_efficiency = <<>> THEN <<>>
                  ELSE RowsOf(tables.storage_efficiency[1], costs.db_name)
        storage_size_gb == IF db_row = <<>> THEN Whole(0)
                           ELSE FDiv(db_row[1].Total_Size_MB, Whole(1024))
        compute_cost_monthly == FMul(costs.hourly_cost, Whole(24 * 30))
        storage_cost_monthly ==
            FMul(FMul(storage_size_gb, costs.storage_cost_per_gb), Whole(30))
        io_cost_monthly == FMul(Whole(10), costs.io_cost_per_million)
    IN  [Database |-> costs.db_name,
         Total_Cost_Monthly |->
            FAdd(FAdd(compute_cost_monthly, storage_cost_monthly),
                 io_cost_monthly)]

\* generate_cost_analysis_table: the tables it can store, with
\* round(total_monthly_cost, 2) in every row
CostAnalysisTable(tables) ==
    LET rows == [k \in 1..Len(CostAssumptions) |->
                    CostRow(CostAssumptions[k], tables)]
    IN  {[k \in 1..Len(rows) |->
            [rows[k] EXCEPT !.Total_Cost_Monthly = total_cost_monthly[k]]] :
         total_cost_monthly \in
            Picks([k \in 1..Len(rows) |->
                     Round2Outcomes(rows[k].Total_Cost_Monthly)])}

\* databases of generate_final_ranking_table
RankingDatabases == <<N_PostgreSQL, N_InfluxDB, N_MongoDB>>

\* (1 - (value / max)) * 100 if max > 0 else 0
InverseScore(value, max) ==
    IF FLt(Whole(0), max)
    THEN FMul(FSub(Whole(1), FDiv(value, max)), Whole(100))
    ELSE Whole(0)

\* db_data of generate_final_ranking_table
RankingScores(db, tables) ==
    LET perf_df == tables.performance_summary
        sec_df  == tables.security_comparison
        sto_df  == tables.storage_efficiency
        cost_df == tables.cost_analysis
        perf_row == IF perf_df = <<>> THEN <<>> ELSE RowsOf(perf_df[1], db)
        sec_row  == IF sec_df = <<>> THEN <<>> ELSE RowsOf(sec_df[1], db)
        sto_row  == IF sto_df = <<>> THEN <<>> ELSE RowsOf(sto_df[1], db)
        cost_row == IF cost_df = <<>> THEN <<>> ELSE RowsOf(cost_df[1], db)
    IN  [Database |-> db,
         Performance_Score |->
            IF perf_row # <<>> THEN perf_row[1].Performance_Score
            ELSE Num(Whole(0)),
         Security_Score |->
            IF sec_row # <<>> THEN sec_row[1].Overall_Security_Score
            ELSE Whole(0),
         Storage_Score |->
            IF sto_row # <<>>
            THEN InverseScore(sto_row[1].Total_Size_MB,
                     FMax([k \in 1..Len(sto_df[1]) |->
                              sto_df[1][k].Total_Size_MB]))
            ELSE Whole(0),
         Cost_Score |->
            IF cost_row # <<>>
            THEN InverseScore(cost_row[1].Total_Cost_Monthly,
                     FMax([k \in 1..Len(cost_df[1]) |->
                              cost_df[1][k].Total_Cost_Monthly]))
            ELSE Whole(0)]

\* ranking_data
RankingData(tables) ==
    [k \in 1..Len(RankingDatabases) |-> RankingScores(RankingDatabases[k], tables)]

\* df[col] * weight fails on a column of strings
TotalScoreRaises(ranking_data) ==
    \E k \in 1..Len(ranking_data) : IsText(ranking_data[k].Performance_Score)

\* df["Total_Score"] before it is rounded
TotalScore(row) ==
    FAdd(FAdd(FMul(row.Performance_Score.num, Frac(35, 100)),
              FMul(row.Security_Score, Frac(30, 100))),
         FAdd(FMul(row.Storage_Score, Frac(20, 100)),
              FMul(row.Cost_Score, Frac(15, 100))))

\* df["Total_Score"].rank(ascending=False).astype(int): the average of the
\* positions of equal scores, truncated
RankOf(totals, k) ==
    LET greater == Cardinality({j \in 1..Len(totals) : FLt(totals[k], totals[j])})
        equal   == Cardinality({j \in 1..Len(totals) : totals[j] = totals[k]})
    IN  (2 * greater + equal + 1) \div 2

\* _get_recommendation
GetRecommendation(total_score) ==
    IF FLe(Whole(80), total_score) THEN "Strongly Recommended"
    ELSE IF FLe(Whole(70), total_score) THEN "Recommended"
    ELSE IF FLe(Whole(60), total_score) THEN "Consider with Modifications"
    ELSE "Not Recommended for Production"

\* df.sort_values("Rank") on the ranks k, k + 1, ...
RECURSIVE SortByRank(_, _)
SortByRank(rows, k) ==
    IF k > Len(rows) THEN <<>>
    ELSE SelectSeq(rows, LAMBDA row : row.Rank = k) \o SortByRank(rows, k + 1)

\* generate_final_ranking_table, when no column holds strings: the tables
\* it can store, with df["Total_Score"].round(2)
FinalRankingTable(tables) ==
    LET data   == RankingData(tables)
        ranked(totals) ==
                  [k \in 1..Len(data) |->
                     [Database          |-> data[k].Database,
                      Performance_Score |-> data[k].Performance_Score,
                      Security_Score    |-> data[k].Security_Score,
                      Storage_Score     |-> data[k].Storage_Score,
                      Cost_Score        |-> data[k].Cost_Score,
                      Total_Score       |-> totals[k],
                      Rank              |-> RankOf(totals, k),
                      Recommendation    |-> GetRecommendation(totals[k])]]
    IN  {SortByRank(ranked(totals), 1) :
         totals \in Picks([k \in 1..Len(data) |->
                             Round2Outcomes(TotalScore(data[k]))])}

NoTables ==
    [performance_summary |-> <<>>, security_comparison |-> <<>>,
     storage_efficiency |-> <<>>, cost_analysis |-> <<>>,
     final_ranking |-> <<>>]

FinalFrame == UNCHANGED <<imp, qry, tok, prn, cmp, scr, gen>>

\* FinalTablesGenerator(...): the results are loaded, no table exists
InitFinal ==
    /\ imp = Idle /\ qry = Idle /\ tok = Idle /\ prn = Idle /\ cmp = Idle
    /\ scr = Idle /\ gen = Idle
    /\ \E pg \in PostgresqlFiles, influx \in InfluxdbFiles,
          mongo \in MongodbFiles, sec \in SecurityFiles :
         fin = [pc      |-> "performance",
                results |-> [postgresql |-> pg, influxdb |-> influx,
                             mongodb |-> mongo, security |-> sec],
                tables  |-> NoTables]

\* self.generate_performance_summary_table()
GenPerformanceSummary ==
    /\ fin.pc = "performance"
    /\ FinalFrame
    /\ \E df \in PerformanceSummaryTable(fin.results) :
         fin' = [fin EXCEPT
            !.pc = "security",
            !.tables.performance_summary = <<df>>]

\* self.generate_security_comparison_table(): no table without security data
GenSecurityComparison ==
    /\ fin.pc = "security"
    /\ FinalFrame
    /\ fin' = [fin EXCEPT
         !.pc = "storage",
         !.tables.security_comparison =
             IF fin.results.security.present
             THEN <<SecurityComparisonTable(fin.results.security)>>
             ELSE <<>>]

\* self.generate_storage_efficiency_table(): no table without storage data
GenStorageEfficiency ==
    /\ fin.pc = "storage"
    /\ FinalFrame
    /\ fin' = [fin EXCEPT
         !.pc = "cost",
         !.tables.storage_efficiency =
             IF StorageData(fin.results) # <<>>
             THEN <<StorageData(fin.results)>>
             ELSE <<>>]

\* self.generate_cost_analysis_table()
GenCostAnalysis ==
    /\ fin.pc = "cost"
    /\ FinalFrame
    /\ \E df \in CostAnalysisTable(fin.tables) :
         fin' = [fin EXCEPT
            !.pc = "ranking",
            !.tables.cost_analysis = <<df>>]

\* self.generate_final_ranking_table()
GenFinalRanking ==
    /\ fin.pc = "ranking"
    /\ FinalFrame
    /\ ~TotalScoreRaises(RankingData(fin.tables))
    /\ \E df \in FinalRankingTable(fin.tables) :
         fin' = [fin EXCEPT
            !.pc = "reports",
            !.tables.final_ranking = <<df>>]

\* self.generate_final_ranking_table() raises TypeError: "N/A" * 0.35
GenFinalRankingRaises ==
    /\ fin.pc = "ranking"
    /\ FinalFrame
    /\ TotalScoreRaises(RankingData(fin.tables))
    /\ fin' = [fin EXCEPT !.pc = "raised"]

\* the reports and exports are written from the tables; return self.tables
FinishRun ==
    /\ fin.pc = "reports"
    /\ FinalFrame
    /\ fin' = [fin EXCEPT !.pc = "returned"]

NextFinal ==
    \/ GenPerformanceSummary
    \/ GenSecurityComparison
    \/ GenStorageEfficiency
    \/ GenCostAnalysis
    \/ GenFinalRanking
    \/ GenFinalRankingRaises
    \/ FinishRun

SpecFinal == InitFinal /\ [][NextFinal]_vars

(***************************************************************************)
(* Claims about FinalTablesGenerator.run.                                  *)
(***************************************************************************)
\* the rows of a table that belong to the database of the given name,
\* however the name is capitalised
RowsFor(table, db) ==
    IF table = <<>> THEN <<>>
    ELSE SelectSeq(table[1], LAMBDA row : Lower(row.Database) = Lower(db))

\* C11: in the final ranking, a database's Security_Score is the
\* Overall_Security_Score of its row in the security comparison table and
\* its Storage_Score is (1 - size / largest size) * 100 of its Total_Size_MB
\* in the storage efficiency table, whenever the table has a row for it.
C11_RankingUsesTables ==
    (fin.pc # "idle" /\ fin.tables.final_ranking # <<>>) =>
      \A k \in 1..Len(fin.tables.final_ranking[1]) :
         LET row == fin.tables.final_ranking[1][k]
             sec == RowsFor(fin.tables.security_comparison, row.Database)
             sto == RowsFor(fin.tables.storage_efficiency, row.Database)
             all == fin.tables.storage_efficiency[1]
             largest == FMax([j \in 1..Len(all) |-> all[j].Total_Size_MB])
         IN  /\ sec # <<>> =>
                  row.Security_Score = sec[1].Overall_Security_Score
             /\ (sto # <<>> /\ largest.num > 0) =>
                  row.Storage_Score =
                     FMul(FSub(Whole(1), FDiv(sto[1].Total_Size_MB, largest)),
                          Whole(100))

\* C12: run never raises, whichever result files exist; when no performance
\* result exists the summary is the three-row "N/A" table and the final
\* ranking still has a row with a numeric Total_Score, a Rank and a
\* Recommendation for each of the three databases.
C12_RunCompletes ==
    /\ fin.pc # "raised"
    /\ (fin.pc # "idle" /\ fin.tables.performance_summary # <<>>
        /\ PerformanceData(fin.results) = <<>>) =>
          fin.tables.performance_summary[1] = PlaceholderTable
    /\ fin.pc = "returned" =>
          /\ fin.tables.final_ranking # <<>>
          /\ {row.Database : row \in Range(fin.tables.final_ranking[1])} =
                {N_PostgreSQL, N_InfluxDB, N_MongoDB}
          /\ \A row \in Range(fin.tables.final_ranking[1]) :
                /\ row.Rank \in 1..3
                /\ FLe(Whole(0), row.Total_Score)

(***************************************************************************)
(* ResultsCollector._normalize_and_score                                   *)
(*                                                                         *)
(* scr.comparison is the dictionary of columns the function rewrites in    *)
(* place, scr.raw the columns as they were passed in.  A column is a list  *)
(* with one number per database.                                           *)
(***************************************************************************)
MaxRaw == 2

\* comparison["database"]
ComparisonDatabases == <<"PostgreSQL", "InfluxDB", "MongoDB">>

\* the lists of one raw value in 0..MaxRaw per database
RawColumns ==
    {[k \in 1..Len(ComparisonDatabases) |-> Whole(f[k])] :
        f \in [1..Len(ComparisonDatabases) -> 0..MaxRaw]}

\* index_efficiency and storage_size as passed in
OtherColumns == {<<Whole(0), Whole(0), Whole(0)>>, <<Whole(2), Whole(1), Whole(0)>>}

\* security_score as passed in: values between 0 and 100
SecurityColumns ==
    {<<Whole(0), Whole(0), Whole(0)>>, <<Whole(100), Frac(125, 2), Whole(75)>>,
     <<Frac(5, 100), Frac(1005, 100), Frac(45, 100)>>}

\* any(values)
AnyTrue(values) == \E k \in 1..Len(values) : values[k].num # 0

\* [v / max_val * 100 for v in values], when any(values) and max_val > 0
NormalizeColumn(values) ==
    IF AnyTrue(values) /\ FLt(Whole(0), FMax(values))
    THEN [k \in 1..Len(values) |->
            FMul(FDiv(values[k], FMax(values)), Whole(100))]
    ELSE values

\* mutant: the lower-is-better column is scaled but not inverted
InvertColumn_NotInverted(values) == NormalizeColumn(values)

\* [(1 - v / max) * 100 for v in values], when any(values) and max > 0
InvertColumn(values) ==
    IF AnyTrue(values) /\ FLt(Whole(0), FMax(values))
    THEN [k \in 1..Len(values) |->
            FMul(FSub(Whole(1), FDiv(values[k], FMax(values))), Whole(100))]
    ELSE values

\* weights
ScoreWeights ==
    [ingestion_rate   |-> Frac(25, 100),
     query_latency    |-> Frac(25, 100),
     storage_size     |-> Frac(20, 100),
     index_efficiency |-> Frac(20, 100),
     security_score   |-> Frac(10, 100)]

\* round(total, 2) of database i: the values it can give
ScoreTotalOf(comparison, i) ==
    Round2Outcomes(FSum(<<FMul(comparison.ingestion_rate[i], ScoreWeights.ingestion_rate),
                  FMul(comparison.query_latency[i], ScoreWeights.query_latency),
                  FMul(comparison.storage_size[i], ScoreWeights.storage_size),
                  FMul(comparison.index_efficiency[i], ScoreWeights.index_efficiency),
                  FMul(comparison.security_score[i], ScoreWeights.security_score)>>))

ScoreFrame == UNCHANGED <<imp, qry, tok, prn, cmp, fin, gen>>

InitScore ==
    /\ imp = Idle /\ qry = Idle /\ tok = Idle /\ prn = Idle /\ cmp = Idle
    /\ fin = Idle /\ gen = Idle
    /\ \E ingestion_rate \in RawColumns, query_latency \in RawColumns,
          storage_size \in OtherColumns, index_efficiency \in OtherColumns,
          security_score \in SecurityColumns :
         LET comparison ==
               [ingestion_rate   |-> ingestion_rate,
                query_latency    |-> query_latency,
                storage_size     |-> storage_size,
                index_efficiency |-> index_efficiency,
                security_score   |-> security_score,
                total_score      |-> <<Whole(0), Whole(0), Whole(0)>>]
         IN  scr = [pc |-> "ingestion_rate", comparison |-> comparison,
                    raw |-> comparison, i |-> 1]

\* for metric in metrics_to_normalize: ingestion_rate
ScoreIngestionRate ==
    /\ scr.pc = "ingestion_rate"
    /\ ScoreFrame
    /\ scr' = [scr EXCEPT
         !.pc = "index_efficiency",
         !.comparison.ingestion_rate = NormalizeColumn(@)]

\* for metric in metrics_to_normalize: index_efficiency
ScoreIndexEfficiency ==
    /\ scr.pc = "index_efficiency"
    /\ ScoreFrame
    /\ scr' = [scr EXCEPT
         !.pc = "query_latency",
         !.comparison.index_efficiency = NormalizeColumn(@)]

\* for latency (lower is better), invert
ScoreQueryLatency ==
    /\ scr.pc = "query_latency"
    /\ ScoreFrame
    /\ scr' = [scr EXCEPT
         !.pc = "storage_size",
         !.comparison.query_latency = InvertColumn(@)]

\* for storage (smaller is better), invert
ScoreStorageSize ==
    /\ scr.pc = "storage_size"
    /\ ScoreFrame
    /\ scr' = [scr EXCEPT
         !.pc = "total_score",
         !.comparison.storage_size = InvertColumn(@)]

\* for i in range(len(comparison["database"])): total_score[i]
ScoreTotal ==
    /\ scr.pc = "total_score"
    /\ ScoreFrame
    /\ scr.i <= Len(ComparisonDatabases)
    /\ \E total \in ScoreTotalOf(scr.comparison, scr.i) :
         scr' = [scr EXCEPT
            !.i = @ + 1,
            !.comparison.total_score[scr.i] = total]

\* the loop is over: the function returns
ScoreReturn ==
    /\ scr.pc = "total_score"
    /\ ScoreFrame
    /\ scr.i > Len(ComparisonDatabases)
    /\ scr' = [scr EXCEPT !.pc = "returned"]

NextScore ==
    \/ ScoreIngestionRate
    \/ ScoreIndexEfficiency
    \/ ScoreQueryLatency
    \/ ScoreStorageSize
    \/ ScoreTotal
    \/ ScoreReturn

SpecScore == InitScore /\ [][NextScore]_vars

(***************************************************************************)
(* Claims about _normalize_and_score.                                      *)
(***************************************************************************)
InRange(x) == FLe(Whole(0), x) /\ FLe(x, Whole(100))

\* the databases holding the largest raw value of a column
Largest(column) ==
    {k \in 1..Len(column) : \A j \in 1..Len(column) : FLe(column[j], column[k])}

ScoredMetrics ==
    {"ingestion_rate", "query_latency", "storage_size", "index_efficiency",
     "security_score"}

\* every metric and the total of every database are between 0 and 100, and
\* the total is the weighted sum of the metrics, rounded
ScoresInRange ==
    /\ \A metric \in ScoredMetrics : \A k \in 1..3 :
          InRange(scr.comparison[metric][k])
    /\ \A k \in 1..3 :
          /\ InRange(scr.comparison.total_score[k])
          /\ scr.comparison.total_score[k] \in
               Round2Outcomes(FAdd(FAdd(FAdd(
                   FMul(scr.comparison.ingestion_rate[k], Frac(1, 4)),
                   FMul(scr.comparison.query_latency[k], Frac(1, 4))),
                   FAdd(FMul(scr.comparison.storage_size[k], Frac(1, 5)),
                        FMul(scr.comparison.index_efficiency[k], Frac(1, 5)))),
                   FMul(scr.comparison.security_score[k], Frac(1, 10))))
    /\ FSum(<<ScoreWeights.ingestion_rate, ScoreWeights.query_latency,
              ScoreWeights.storage_size, ScoreWeights.index_efficiency,
              ScoreWeights.security_score>>) = Whole(1)

\* C13 as claimed: on return every metric and total_score is in [0, 100],
\* total_score is the weighted sum, the largest raw ingestion_rate and
\* index_efficiency map to 100 and the largest raw query_latency and
\* storage_size map to 0.
C13_LargestMapsTo100 ==
    scr.pc = "returned" =>
      /\ ScoresInRange
      /\ \A metric \in {"ingestion_rate", "index_efficiency"} :
            \A k \in Largest(scr.raw[metric]) :
               scr.comparison[metric][k] = Whole(100)
      /\ \A metric \in {"query_latency", "storage_size"} :
            \A k \in Largest(scr.raw[metric]) :
               scr.comparison[metric][k] = Whole(0)

\* C13 (amended): on return every metric and total_score is in [0, 100] and
\* total_score is the weighted sum; in a column with a positive value the
\* largest raw ingestion_rate and index_efficiency map to 100 and the largest
\* raw query_latency and storage_size map to 0; a column without a positive
\* value is left as it was, all 0.
C13_NormalizeAndScore ==
    scr.pc = "returned" =>
      /\ ScoresInRange
      /\ \A metric \in {"ingestion_rate", "index_efficiency"} :
            IF \E k \in 1..3 : scr.raw[metric][k].num > 0
            THEN \A k \in Largest(scr.raw[metric]) :
                    scr.comparison[metric][k] = Whole(100)
            ELSE scr.comparison[metric] = scr.raw[metric]
      /\ \A metric \in {"query_latency", "storage_size"} :
            IF \E k \in 1..3 : scr.raw[metric][k].num > 0
            THEN /\ \A k \in Largest(scr.raw[metric]) :
                       scr.comparison[metric][k] = Whole(0)
                 /\ \A k \in 1..3 :
                       scr.raw[metric][k].num = 0 =>
                          scr.comparison[metric][k] = Whole(100)
            ELSE scr.comparison[metric] = scr.raw[metric]

C13_Witness ==
    /\ scr.pc = "returned"
    /\ scr.raw.ingestion_rate = <<Whole(2), Whole(1), Whole(0)>>
    /\ scr.comparison.ingestion_rate = <<Whole(100), Whole(50), Whole(0)>>
    /\ scr.raw.query_latency = <<Whole(1), Whole(2), Whole(0)>>
    /\ scr.comparison.query_latency = <<Whole(50), Whole(0), Whole(100)>>
    /\ scr.raw.index_efficiency = <<Whole(0), Whole(0), Whole(0)>>
    /\ scr.comparison.index_efficiency = <<Whole(0), Whole(0), Whole(0)>>
    /\ scr.raw.security_score[2] = Frac(125, 2)
    /\ scr.comparison.total_score[2] = Frac(1875, 100)

(***************************************************************************)
(* generate_health_iot_data and validate_dataset                           *)
(*                                                                         *)
(* gen.records is the part of the dataset from record gen.first on: the    *)
(* loop body treats every record alike, so the records before gen.first    *)
(* are not kept, which lets the model reach the hours of the day at which  *)
(* the heart rate is generated differently.  A timestamp is the number of  *)
(* seconds after base_time, a value is a number of hundredths, and a       *)
(* patient id is a sequence of one-character strings.  The random module   *)
(* is the environment: uniform(a, b) yields one of a, b and choice(xs) one *)
(* of a few elements of xs.                                                *)
(***************************************************************************)
MaxRecords == 2

\* indexes at which the window starts: hours 0, 2 and 8 of the first day
FirstIndexes == {0, 3600, 14400}

Digits == <<"0", "1", "2", "3", "4", "5", "6", "7", "8", "9">>

\* str(n) for a natural number
RECURSIVE StrOfNat(_)
StrOfNat(n) ==
    IF n < 10 THEN <<Digits[n + 1]>>
    ELSE Append(StrOfNat(n \div 10), Digits[(n % 10) + 1])

\* str.zfill(width)
RECURSIVE ZFill(_, _)
ZFill(str, width) ==
    IF Len(str) >= width THEN str ELSE ZFill(<<"0">> \o str, width)

W_PATIENT == <<"P", "A", "T", "I", "E", "N", "T", "_">>

\* f"PATIENT_{str(i).zfill(5)}"
PatientId(i) == W_PATIENT \o ZFill(StrOfNat(i), 5)

\* random.choice(patients) yields the first or the last patient
PatientChoices == {1, 100}

VitalTypes ==
    {"heart_rate_bpm", "blood_pressure_sys_mmhg", "blood_pressure_dia_mmhg",
     "spo2_percent", "temperature_c", "respiratory_rate_bpm",
     "blood_glucose_mgdl"}

\* vital_ranges, in hundredths: (min, max, typical)
VitalRanges ==
    [vital_type \in VitalTypes |->
        CASE vital_type = "heart_rate_bpm" -> <<4000, 18000, 7200>>
          [] vital_type = "blood_pressure_sys_mmhg" -> <<8000, 20000, 12000>>
          [] vital_type = "blood_pressure_dia_mmhg" -> <<5000, 12000, 8000>>
          [] vital_type = "spo2_percent" -> <<7000, 10000, 9800>>
          [] vital_type = "temperature_c" -> <<3500, 4100, 3680>>
          [] vital_type = "respiratory_rate_bpm" -> <<800, 4000, 1600>>
          [] vital_type = "blood_glucose_mgdl" -> <<7000, 40000, 10000>>]

\* timestamps[i] = base_time + timedelta(seconds=i * 2)
Timestamp(i) == i * 2

\* timestamps[i].hour
Hour(timestamp) == (timestamp \div 3600) % 24

\* base_value, where sign = -1 or 1 is the end of the interval that
\* random.uniform returned
BaseValue(vital_type, hour, sign) ==
    LET typical == VitalRanges[vital_type][3]
    IN  IF vital_type = "heart_rate_bpm"
        THEN IF 2 <= hour /\ hour <= 6 THEN typical - 1000 + sign * 500
             ELSE IF 8 <= hour /\ hour <= 18 THEN typical + 500 + sign * 1000
             ELSE typical + sign * 800
        ELSE typical + sign * (typical \div 5)

\* mutant: the value is taken as generated
Clamp_None(min_val, max_val, base_value) == base_value

\* max(min_val, min(max_val, base_value))
Clamp(min_val, max_val, base_value) ==
    IF (IF max_val < base_value THEN max_val ELSE base_value) < min_val
    THEN min_val
    ELSE (IF max_val < base_value THEN max_val ELSE base_value)

\* alert_flag; below5 is random.random() < 0.05
AlertFlag(vital_type, value, below5) ==
    IF vital_type = "heart_rate_bpm"
    THEN IF value > 12000 \/ value < 5000 THEN 1 ELSE 0
    ELSE IF vital_type = "spo2_percent"
    THEN IF value < 9200 THEN 1 ELSE 0
    ELSE IF vital_type = "blood_pressure_sys_mmhg"
    THEN IF value > 16000 \/ value < 9000 THEN 1 ELSE 0
    ELSE IF below5 THEN 1 ELSE 0

\* the record of index i (the columns validate_dataset reads, and the batch)
MakeRecord(i, patient, vital_type, sign, below5) ==
    LET range == VitalRanges[vital_type]
        value == Clamp(range[1], range[2],
                       BaseValue(vital_type, Hour(Timestamp(i)), sign))
    IN  [timestamp       |-> Timestamp(i),
         patient_id      |-> PatientId(patient),
         vital_type      |-> vital_type,
         value           |-> value,
         alert_flag      |-> AlertFlag(vital_type, value, below5),
         ingestion_batch |-> (i \div 1000) + 1]

\* critical_cols
CriticalCols == {"timestamp", "patient_id", "vital_type", "value"}

\* check 1: no null values in critical columns
NullCheck(df) ==
    \A k \in 1..Len(df) : CriticalCols \subseteq DOMAIN df[k]

\* check 2: df["timestamp"].is_monotonic_increasing
TimeOrderCheck(df) ==
    \A k \in 1..(Len(df) - 1) : df[k].timestamp <= df[k + 1].timestamp

\* check 3: no vital type other than temperature_c has a negative minimum
ValueRangesValid(df) ==
    \A k \in 1..Len(df) :
        ~(df[k].value < 0 /\ df[k].vital_type # "temperature_c")

\* check 4: df["alert_flag"].isin([0, 1]).all()
AlertBinaryCheck(df) == \A k \in 1..Len(df) : df[k].alert_flag \in {0, 1}

\* re.match(r"^PATIENT_\d{5}$", patient_id)
MatchesPatientPattern(patient_id) ==
    /\ Len(patient_id) = Len(W_PATIENT) + 5
    /\ SubSeq(patient_id, 1, Len(W_PATIENT)) = W_PATIENT
    /\ \A k \in (Len(W_PATIENT) + 1)..Len(patient_id) :
          \E d \in 1..10 : Digits[d] = patient_id[k]

\* check 5: patient ids follow the pattern
PatientPatternCheck(df) ==
    \A k \in 1..Len(df) : MatchesPatientPattern(df[k].patient_id)

\* validation_checks
ValidationChecks(df) ==
    <<NullCheck(df), TimeOrderCheck(df), ValueRangesValid(df),
      AlertBinaryCheck(df), PatientPatternCheck(df)>>

DatasetFrame == UNCHANGED <<imp, qry, tok, prn, cmp, fin, scr>>

InitDataset ==
    /\ imp = Idle /\ qry = Idle /\ tok = Idle /\ prn = Idle /\ cmp = Idle
    /\ fin = Idle /\ scr = Idle
    /\ \E first \in FirstIndexes, n \in 0..MaxRecords :
         gen = [pc          |-> "start",
                num_records |-> first + n,
                first       |-> first,
                i           |-> first,
                records     |-> <<>>,
                checks      |-> <<>>]

\* timestamps[0] of an empty list: IndexError
GenerateRaises ==
    /\ gen.pc = "start"
    /\ DatasetFrame
    /\ gen.num_records = 0
    /\ gen' = [gen EXCEPT !.pc = "raised"]

\* the configuration and the timestamps are built
GenerateBegin ==
    /\ gen.pc = "start"
    /\ DatasetFrame
    /\ gen.num_records > 0
    /\ gen' = [gen EXCEPT !.pc = "loop"]

\* for i in range(num_records): one record
GenerateRecord ==
    /\ gen.pc = "loop"
    /\ DatasetFrame
    /\ gen.i < gen.num_records
    /\ \E patient \in PatientChoices, vital_type \in VitalTypes,
          sign \in {-1, 1}, below5 \in BOOLEAN :
         /\ vital_type \in {"heart_rate_bpm", "spo2_percent",
                            "blood_pressure_sys_mmhg"} => ~below5
         /\ gen' = [gen EXCEPT
              !.i = @ + 1,
              !.records = Append(@, MakeRecord(gen.i, patient, vital_type,
                                               sign, below5))]

\* df = pd.DataFrame(records); return df, schema_info
GenerateReturn ==
    /\ gen.pc = "loop"
    /\ DatasetFrame
    /\ gen.i = gen.num_records
    /\ gen' = [gen EXCEPT !.pc = "returned"]

\* validate_dataset(df)
ValidateDataset ==
    /\ gen.pc = "returned"
    /\ DatasetFrame
    /\ gen' = [gen EXCEPT
         !.pc = "validated",
         !.checks = ValidationChecks(gen.records)]

NextDataset ==
    \/ GenerateRaises
    \/ GenerateBegin
    \/ GenerateRecord
    \/ GenerateReturn
    \/ ValidateDataset

SpecDataset == InitDataset /\ [][NextDataset]_vars

(***************************************************************************)
(* Claims about the generated dataset.                                     *)
(***************************************************************************)
\* C14: for num_records >= 1 the generated dataset passes all five checks of
\* validate_dataset: record i has timestamp 2 * i seconds after the base
\* time, strictly increasing; its value lies in the [min, max] range of its
\* vital type, so it is not negative; alert_flag is 0 or 1; patient_id is
\* PATIENT_ followed by five digits; no critical column is missing.
C14_DatasetPassesValidation ==
    /\ gen.pc = "validated" => gen.checks = <<TRUE, TRUE, TRUE, TRUE, TRUE>>
    /\ gen.pc # "idle" =>
         \A k \in 1..Len(gen.records) :
            LET record == gen.records[k]
                range  == VitalRanges[record.vital_type]
            IN  /\ record.timestamp = 2 * (gen.first + k - 1)
                /\ k > 1 => gen.records[k - 1].timestamp < record.timestamp
                /\ range[1] <= record.value /\ record.value <= range[2]
                /\ record.value >= 0
                /\ record.alert_flag \in {0, 1}
                /\ Len(record.patient_id) = 13
                /\ SubSeq(record.patient_id, 1, 8) = W_PATIENT
                /\ \A j \in 9..13 :
                      record.patient_id[j] \in
                         {"0", "1", "2", "3", "4", "5", "6", "7", "8", "9"}
                /\ {"timestamp", "patient_id", "vital_type", "value"}
                      \subseteq DOMAIN record

C14_Witness ==
    /\ gen.pc = "validated"
    /\ gen.first = 3600
    /\ Len(gen.records) = 2
    /\ gen.records[1].vital_type = "heart_rate_bpm"
    /\ gen.records[1].value = 5700
    /\ gen.records[2].vital_type = "spo2_percent"
    /\ gen.records[2].value = 10000
    /\ gen.records[2].patient_id = <<"P", "A", "T", "I", "E", "N", "T", "_", "0", "0", "1", "0", "0">>
    /\ gen.checks = <<TRUE, TRUE, TRUE, TRUE, TRUE>>

(***************************************************************************)
(* Claims about the order of the steps of rotate_tokens.                   *)
(***************************************************************************)
Rotating == tok.pc \in {"rot_loop", "rot_deact", "rot_create"}

\* the status the server holds for a token id, "" if it holds none
StatusOf(auths, id) ==
    IF Known(auths, id) THEN auths[AuthIndex(auths, id)].status ELSE ""

\* C15: in rotate_tokens creating the replacement is attempted only after
\* the attempt to deactivate the old token, whether or not that attempt
\* worked; the deactivation either leaves the server as it was or sets the
\* old token inactive; creating never touches the existing tokens, so a
\* failed creation is reported under failed and the old token stays as the
\* deactivation left it.
C15_Step ==
    Rotating =>
      LET token_id == tok.token_ids[tok.ri]
      IN  /\ tok'.pc = "rot_create" => tok.pc = "rot_deact"
          /\ tok.pc = "rot_deact" =>
                /\ tok'.pc = "rot_create"
                /\ tok'.requested = tok.requested
                /\ Len(tok'.auths) = Len(tok.auths)
                /\ \/ tok'.auths = tok.auths
                   \/ /\ StatusOf(tok'.auths, token_id) = "inactive"
                      /\ \A k \in 1..Len(tok.auths) :
                            tok.auths[k].id # token_id =>
                               tok'.auths[k] = tok.auths[k]
          /\ (Len(tok'.auths) > Len(tok.auths)
              \/ tok'.requested # tok.requested
              \/ tok'.successful # tok.successful) => tok.pc = "rot_create"
          /\ tok.pc = "rot_create" =>
                /\ SubSeq(tok'.auths, 1, Len(tok.auths)) = tok.auths
                /\ Len(tok'.auths) <= Len(tok.auths) + 1
                /\ \/ /\ Len(tok'.successful) = Len(tok.successful) + 1
                      /\ tok'.failed = tok.failed
                      /\ Len(tok'.auths) = Len(tok.auths) + 1
                      /\ tok'.successful[Len(tok'.successful)].old_token_id
                            = token_id
                   \/ /\ tok'.successful = tok.successful
                      /\ tok'.failed =
                           Append(tok.failed,
                                  [token_id |-> token_id,
                                   error |-> "Failed to create new token"])
          /\ tok.pc = "rot_loop" => tok'.auths = tok.auths

C15_DeactivateThenCreate == [][C15_Step]_vars

\* one rotation of the tokens 1 and 2: token 1 was deactivated and its
\* replacement failed, so neither it nor a replacement is active; the
\* deactivation of token 2 failed and its rotation is reported successful
\* while token 2 is still active
C15_Witness ==
    /\ tok.pc = "returned"
    /\ tok.last.op = "rotate"
    /\ tok.token_ids = <<1, 2>>
    /\ tok.failed = <<[token_id |-> 1, error |-> "Failed to create new token"]>>
    /\ tok.successful = <<[old_token_id |-> 2, new_token_id |-> 3]>>
    /\ Len(tok.auths) = 3
    /\ tok.auths[1].status = "inactive"
    /\ tok.auths[1].updated_at > tok.auths[1].created_at
    /\ tok.auths[2].status = "active"
    /\ tok.auths[2].updated_at = tok.auths[2].created_at
    /\ tok.auths[3].status = "active"

(***************************************************************************)
(* _normalize_performance_scores of FinalTablesGenerator on its own: the   *)
(* data frame it is given holds one row per database that has results,     *)
(* with non-negative metrics; the steps follow the loops of the method.    *)
(***************************************************************************)
MaxMetric == 2

\* the rows generate_performance_summary_table can append, in its order
PerformanceDatabases == <<N_PostgreSQL, N_InfluxDB, N_MongoDB>>

\* the raw values of one column of a frame of n rows
MetricColumns(n) == [1..n -> 0..MaxMetric]

\* columns left at the zeros of the extractors, or filled row by row
ZeroColumn(n) == [k \in 1..n |-> 0]

RampColumn(n) == [k \in 1..n |-> k]

FrameRows(present, ingestion, latency, efficiency, overhead) ==
    LET names == SelectSeq(PerformanceDatabases, LAMBDA db : db \in present)
    IN  [k \in 1..Len(names) |->
           [Database |-> names[k],
            metrics  |->
              [col \in MetricNames |->
                 CASE col = "Ingestion_Rate"     -> Whole(ingestion[k])
                   [] col = "Query_Latency_Avg"  -> Whole(latency[k])
                   [] col = "Storage_Efficiency" -> Whole(efficiency[k])
                   [] col = "Index_Improvement"  -> Whole(efficiency[k])
                   [] col = "Query_Latency_P95"  -> Whole(overhead[k])
                   [] col = "Security_Overhead"  -> Whole(overhead[k])]]]

InitNormalize ==
    /\ imp = Idle /\ qry = Idle /\ tok = Idle /\ prn = Idle /\ cmp = Idle
    /\ scr = Idle /\ gen = Idle
    /\ \E present \in (SUBSET Range(PerformanceDatabases)) \ {{}} :
         LET n == Cardinality(present)
         IN  \E ingestion \in MetricColumns(n), latency \in MetricColumns(n),
                efficiency \in {ZeroColumn(n), RampColumn(n)},
                overhead \in {ZeroColumn(n), RampColumn(n)} :
               fin = [pc   |-> "norm_higher",
                      rows |-> FrameRows(present, ingestion, latency,
                                         efficiency, overhead),
                      scores |-> [col \in MetricNames |-> <<>>],
                      Performance_Score |-> <<>>]

\* the column df[f"{col}_Score"]
ScoreColumn(rows, col) ==
    [k \in 1..Len(rows) |-> MetricScore(rows, col, rows[k].metrics[col])]

\* for col in higher_better
NormalizeHigherBetter ==
    /\ fin.pc = "norm_higher"
    /\ fin' = [fin EXCEPT
                 !.pc = "norm_lower",
                 !.scores = [col \in MetricNames |->
                               IF col \in HigherBetter
                               THEN ScoreColumn(fin.rows, col)
                               ELSE fin.scores[col]]]
    /\ FinalFrame

\* for col in lower_better
NormalizeLowerBetter ==
    /\ fin.pc = "norm_lower"
    /\ fin' = [fin EXCEPT
                 !.pc = "norm_weights",
                 !.scores = [col \in MetricNames |->
                               IF col \in LowerBetter
                               THEN ScoreColumn(fin.rows, col)
                               ELSE fin.scores[col]]]
    /\ FinalFrame

\* df["Performance_Score"] = 0, then += df[col] * weight for every weight
NormalizeWeights ==
    /\ fin.pc = "norm_weights"
    /\ fin' = [fin EXCEPT
                 !.pc = "norm_round",
                 !.Performance_Score =
                    [k \in 1..Len(fin.rows) |->
                       WeightedPerformance(
                          [col \in MetricNames |-> fin.scores[col][k]])]]
    /\ FinalFrame

\* df["Performance_Score"].round(2); return df
NormalizeRound ==
    /\ fin.pc = "norm_round"
    /\ \E rounded \in Picks([k \in 1..Len(fin.rows) |->
                                Round2Outcomes(fin.Performance_Score[k])]) :
         fin' = [fin EXCEPT
                   !.pc = "norm_returned",
                   !.Performance_Score = rounded]
    /\ FinalFrame

NextNormalize ==
    \/ NormalizeHigherBetter
    \/ NormalizeLowerBetter
    \/ NormalizeWeights
    \/ NormalizeRound

SpecNormalize == InitNormalize /\ [][NextNormalize]_vars

(***************************************************************************)
(* Claims about _normalize_performance_scores.                             *)
(***************************************************************************)
NormalizeReturned == fin.pc = "norm_returned"

RawValue(k, col) == fin.rows[k].metrics[col]

AllZero(col) == \A k \in 1..Len(fin.rows) : RawValue(k, col) = Whole(0)

IsColumnMax(k, col) ==
    \A j \in 1..Len(fin.rows) : FLe(RawValue(j, col), RawValue(k, col))

\* the weighted sum of the six scores of row k, with the weights written out
WeightedSum(k) ==
    FAdd(FAdd(FAdd(FMul(fin.scores["Ingestion_Rate"][k], Frac(25, 100)),
                   FMul(fin.scores["Query_Latency_Avg"][k], Frac(20, 100))),
              FAdd(FMul(fin.scores["Query_Latency_P95"][k], Frac(15, 100)),
                   FMul(fin.scores["Storage_Efficiency"][k], Frac(20, 100)))),
         FAdd(FMul(fin.scores["Index_Improvement"][k], Frac(15, 100)),
              FMul(fin.scores["Security_Overhead"][k], Frac(5, 100))))

\* C16: _normalize_performance_scores gives every metric a score between 0
\* and 100; in a higher-is-better column the maximum gets 100 and an
\* all-zero column gets 0 in every row; in a lower-is-better column the
\* maximum gets 0, a raw 0 gets 100 and an all-zero column gets 100 in every
\* row; Performance_Score is the sum of the scores weighted 0.25, 0.20,
\* 0.15, 0.20, 0.15, 0.05 (together 1), rounded to two places, lies between
\* 0 and 100, and is 40 for every row of a frame whose metrics are all zero.
C16_NormalizePerformanceScores ==
    NormalizeReturned =>
      /\ \A col \in MetricNames :
            /\ DOMAIN fin.scores[col] = 1..Len(fin.rows)
            /\ \A k \in 1..Len(fin.rows) : InRange(fin.scores[col][k])
      /\ \A col \in {"Ingestion_Rate", "Storage_Efficiency",
                     "Index_Improvement"} :
            \A k \in 1..Len(fin.rows) :
               /\ AllZero(col) => fin.scores[col][k] = Whole(0)
               /\ ~AllZero(col) /\ IsColumnMax(k, col) =>
                     fin.scores[col][k] = Whole(100)
      /\ \A col \in {"Query_Latency_Avg", "Query_Latency_P95",
                     "Security_Overhead"} :
            \A k \in 1..Len(fin.rows) :
               /\ AllZero(col) => fin.scores[col][k] = Whole(100)
               /\ ~AllZero(col) /\ IsColumnMax(k, col) =>
                     fin.scores[col][k] = Whole(0)
               /\ RawValue(k, col) = Whole(0) =>
                     fin.scores[col][k] = Whole(100)
      /\ FSum(<<Frac(25, 100), Frac(20, 100), Frac(15, 100), Frac(20, 100),
                Frac(15, 100), Frac(5, 100)>>) = Whole(1)
      /\ \A k \in 1..Len(fin.rows) :
            /\ fin.Performance_Score[k] \in Round2Outcomes(WeightedSum(k))
            /\ InRange(fin.Performance_Score[k])
            /\ (\A col \in MetricNames : AllZero(col)) =>
                  fin.Performance_Score[k] = Whole(40)

\* three databases: the ingestion rates 2, 1, 0 score 100, 50, 0, the
\* latencies 0, 1, 2 score 100, 50, 0, the other columns are all zero
C16_Witness ==
    /\ NormalizeReturned
    /\ Len(fin.rows) = 3
    /\ \A k \in 1..3 :
          /\ RawValue(k, "Ingestion_Rate") = Whole(3 - k)
          /\ RawValue(k, "Query_Latency_Avg") = Whole(k - 1)
    /\ AllZero("Storage_Efficiency") /\ AllZero("Security_Overhead")
    /\ fin.scores["Ingestion_Rate"] = <<Whole(100), Whole(50), Whole(0)>>
    /\ fin.scores["Query_Latency_Avg"] = <<Whole(100), Whole(50), Whole(0)>>
    /\ fin.scores["Storage_Efficiency"] = <<Whole(0), Whole(0), Whole(0)>>
    /\ fin.scores["Security_Overhead"] = <<Whole(100), Whole(100), Whole(100)>>
    /\ fin.Performance_Score = <<Whole(65), Frac(85, 2), Whole(20)>>

====
